---- MODULE Spec2Model ----
(***************************************************************************)
(* Model of the command interpolation and MCP tool-invocation core of      *)
(* wispr-action: parameter-name sanitisation and mapping                   *)
(* (backend/command_manager.py), template interpolation and the MCP        *)
(* dispatcher (backend/executor.py), the classifier round trip             *)
(* (backend/parser.py) and the MCP server registry with its tool cache     *)
(* (backend/mcp_client.py, backend/secret_store.py).                       *)
(*                                                                         *)
(* Python strings are sequences of one-character strings; Python dicts     *)
(* are sequences of <<key, value>> pairs with pairwise distinct keys, in   *)
(* insertion order.                                                        *)
(***************************************************************************)
EXTENDS Integers, Sequences, FiniteSets, TLC

VARIABLES
    name_in,        \* _sanitize_param_name: the argument
    name_out,       \* _sanitize_param_name: <<>> before the call, <<result>> after
    name_twice,     \* the result of sanitising the result, <<>> before
    pm_command,     \* build_parameter_map: the command (its parameter definitions)
    pm_provided,    \* build_parameter_map: the provided arguments (a dict)
    pm_result,      \* build_parameter_map: <<>> before the call, <<dict>> after
    commands,       \* CommandManager.commands: the registered commands, in insertion order
    mcp_tools,      \* what get_mcp_manager().list_tools() returns: the discovered tools
    tool_name_map,  \* CommandManager._tool_name_map: dict tool name -> command id
    tools,          \* the tool definitions of the last get_claude_tools pass
    parse_result,   \* the last result of parse_command, NoResult before
    ex_command,     \* execute_mcp: the command
    ex_parameters,  \* execute_mcp: the parameters extracted by the classifier
    mcp_call,       \* the call execute_mcp made to call_tool, NoCall if none
    exec_result,    \* the ExecutionResult execute_mcp returned, NoResult before
    speech,         \* whether the read-aloud thread was started
    it_template,    \* interpolate_parameters: the template
    it_parameters,  \* interpolate_parameters: the parameters (a dict)
    it_out,         \* interpolate_parameters: <<>> before the call, <<result>> after
    servers,        \* MCPClientManager._servers: server id -> config
    tool_cache,     \* MCPClientManager._tool_cache: server id -> cache entry
    persisted,      \* the servers written to the registry file
    secrets,        \* the keyring: the <<server id, key>> pairs that hold a value
    secret_version, \* per server id, the number of changes made to its secrets
    config_version, \* per server id, the number of configs registered for it
    threads,        \* per thread, the registry call it is in and its locals
    now,            \* time.time(), in seconds
    calls,          \* the number of registry calls started
    secrets_set,    \* history: the <<server id, key>> pairs update_secrets gave a value
    settled,        \* history: per server id, the newest config revision and
                    \* secrets version whose upsert_server / update_secrets returned
    cmd_registry,   \* CommandManager.commands: command id -> command
    cmd_file,       \* the commands written to the commands file
    crud,           \* the last CRUD call on the command registry and how it ended
    crud_calls,     \* the number of CRUD calls made
    run,            \* the execute(...) invocation: its position, locals and effects
    runs,           \* the number of execute(...) invocations started
    mcp_servers,    \* MCPClientManager._servers, with the transport fields of each config
    mcp_cache,      \* MCPClientManager._tool_cache: per server id, the entry or none
    ops,            \* per thread, the list_tools or call_tool invocation it is in
    session_count,  \* the number of MCP sessions opened so far
    changes,        \* the number of registry changes made
    op_calls,       \* the number of list_tools and call_tool invocations started
    ni_runs,        \* two runs of the registry: same operations, different secret values
    ni_ops,         \* the number of operations the two runs have performed
    mx_call,        \* the execute_mcp invocation from the confirmation gate on: position, inputs, locals
    speak_thread,   \* the daemon thread started by try_speak_mcp_result
    en_param,       \* the parameter definition and description given to _build_property_schema
    en_schema,      \* the property schema it returned
    lk_registry,    \* whether MCPClientManager._servers has the server
    lk_cache,       \* whether MCPClientManager._tool_cache has an entry for the server
    lk_lock,        \* MCPClientManager._lock, a reentrant lock: its owner and its count
    lk_threads,     \* per thread, the registry operation it is in and its position
    lk_last,        \* the last access to the registry, the cache or the secret store
    lk_calls,       \* the number of registry operations started
    tp_server,      \* a non-OAuth server config: transport, target, templated entries, secret_fields
    tp_keyring,     \* the secrets the keyring holds for the server
    tp_open,        \* what _open_session did: the rendered headers, query parameters and env
    is_running,     \* WisprMonitor.is_running
    stop_event,     \* WisprMonitor._stop_event, set or not
    loops,          \* the monitor loop threads started so far, each with its position
    monitor_thread, \* WisprMonitor.monitor_thread: the index of a loop thread, 0 for None
    callers,        \* per calling thread, its position in start() or stop()
    mon_calls,      \* the number of start() and stop() calls made
    lg_log,         \* the execution_history table: per entry its status, and the process and the watcher thread of the execution
    lg_run,         \* the execute_with_logging invocation: its position, its command and the result of execute
    history,        \* the History table of the transcription database: the transcripts in order of arrival
    last_timestamp, \* WisprMonitor.last_timestamp, 0 for None
    processed_ids,  \* WisprMonitor.processed_ids
    commands_run,   \* the transcript ids process_command was called for, in order
    poll,           \* the monitor loop: its position and the transcript it fetched
    pf_servers,     \* MCPClientManager._servers: server id -> config, for two server ids
    pf_file,        \* the servers in the registry file, by id
    pf_cache,       \* MCPClientManager._tool_cache: the server ids that have an entry
    pf_keyring,     \* the keyring: the usernames that hold a password
    pf_lock,        \* MCPClientManager._lock: the thread that holds it, if any
    pf_threads,     \* per thread, the registry call it is in, its position and its locals
    pf_calls,       \* the number of registry calls started
    ts_command,     \* the command given to _command_to_tool
    ts_tool         \* the tool definition it returned (NoTool before the call)

sanVars == <<name_in, name_out, name_twice>>
pmVars == <<pm_command, pm_provided, pm_result>>
toolVars == <<commands, mcp_tools, tool_name_map, tools, parse_result>>
execVars == <<ex_command, ex_parameters, mcp_call, exec_result, speech>>
interpVars == <<it_template, it_parameters, it_out>>
regVars == <<servers, tool_cache, persisted, secrets, secret_version, config_version,
             threads, now, calls, secrets_set, settled>>
cmdVars == <<cmd_registry, cmd_file, crud, crud_calls, run, runs>>
sessVars == <<mcp_servers, mcp_cache, ops, session_count, changes, op_calls>>
niVars == <<ni_runs, ni_ops>>
mxVars == <<mx_call, speak_thread>>
enVars == <<en_param, en_schema>>
lkVars == <<lk_registry, lk_cache, lk_lock, lk_threads, lk_last, lk_calls>>
tpVars == <<tp_server, tp_keyring, tp_open>>
monVars == <<is_running, stop_event, loops, monitor_thread, callers, mon_calls>>
lgVars == <<lg_log, lg_run>>
trVars == <<history, last_timestamp, processed_ids, commands_run, poll>>
pfVars == <<pf_servers, pf_file, pf_cache, pf_keyring, pf_lock, pf_threads, pf_calls>>
tsVars == <<ts_command, ts_tool>>
vars == <<sanVars, pmVars, toolVars, execVars, interpVars, regVars, cmdVars, sessVars, niVars,
          mxVars,
          enVars,
          lkVars,
          tpVars,
          monVars,
          lgVars,
          trVars,
          pfVars,
          tsVars>>

\* the variables each part of the model leaves alone
sanOthers == <<pmVars, toolVars, execVars, interpVars, regVars, cmdVars, sessVars, niVars,
    mxVars,
    enVars,
    lkVars,
    tpVars,
    monVars,
    lgVars,
    trVars,
    pfVars,
    tsVars>>
pmOthers == <<sanVars, toolVars, execVars, interpVars, regVars, cmdVars, sessVars, niVars,
    mxVars,
    enVars,
    lkVars,
    tpVars,
    monVars,
    lgVars,
    trVars,
    pfVars,
    tsVars>>
toolOthers == <<sanVars, pmVars, execVars, interpVars, regVars, cmdVars, sessVars, niVars,
    mxVars,
    enVars,
    lkVars,
    tpVars,
    monVars,
    lgVars,
    trVars,
    pfVars,
    tsVars>>
execOthers == <<sanVars, pmVars, toolVars, interpVars, regVars, cmdVars, sessVars, niVars,
    mxVars,
    enVars,
    lkVars,
    tpVars,
    monVars,
    lgVars,
    trVars,
    pfVars,
    tsVars>>
interpOthers == <<sanVars, pmVars, toolVars, execVars, regVars, cmdVars, sessVars, niVars,
    mxVars,
    enVars,
    lkVars,
    tpVars,
    monVars,
    lgVars,
    trVars,
    pfVars,
    tsVars>>
regOthers == <<sanVars, pmVars, toolVars, execVars, interpVars, cmdVars, sessVars, niVars,
    mxVars,
    enVars,
    lkVars,
    tpVars,
    monVars,
    lgVars,
    trVars,
    pfVars,
    tsVars>>
cmdOthers == <<sanVars, pmVars, toolVars, execVars, interpVars, regVars, sessVars, niVars,
    mxVars,
    enVars,
    lkVars,
    tpVars,
    monVars,
    lgVars,
    trVars,
    pfVars,
    tsVars>>
sessOthers == <<sanVars, pmVars, toolVars, execVars, interpVars, regVars, cmdVars, niVars,
    mxVars,
    enVars,
    lkVars,
    tpVars,
    monVars,
    lgVars,
    trVars,
    pfVars,
    tsVars>>
niOthers == <<sanVars, pmVars, toolVars, execVars, interpVars, regVars, cmdVars, sessVars,
    mxVars,
    enVars,
    lkVars,
    tpVars,
    monVars,
    lgVars,
    trVars,
    pfVars,
    tsVars>>
mxOthers == <<sanVars, pmVars, toolVars, execVars, interpVars, regVars, cmdVars, sessVars, niVars,
    enVars,
    lkVars,
    tpVars,
    monVars,
    lgVars,
    trVars,
    pfVars,
    tsVars>>
enOthers == <<sanVars, pmVars, toolVars, execVars, interpVars, regVars, cmdVars, sessVars, niVars, mxVars,
    lkVars,
    tpVars,
    monVars,
    lgVars,
    trVars,
    pfVars,
    tsVars>>
lkOthers == <<sanVars, pmVars, toolVars, execVars, interpVars, regVars, cmdVars, sessVars, niVars, mxVars, enVars,
    tpVars,
    monVars,
    lgVars,
    trVars,
    pfVars,
    tsVars>>
tpOthers == <<sanVars, pmVars, toolVars, execVars, interpVars, regVars, cmdVars, sessVars, niVars, mxVars, enVars, lkVars,
    monVars,
    lgVars,
    trVars,
    pfVars,
    tsVars>>
monOthers == <<sanVars, pmVars, toolVars, execVars, interpVars, regVars, cmdVars, sessVars, niVars, mxVars, enVars, lkVars, tpVars,
    lgVars,
    trVars,
    pfVars,
    tsVars>>
lgOthers == <<sanVars, pmVars, toolVars, execVars, interpVars, regVars, cmdVars, sessVars, niVars, mxVars, enVars, lkVars, tpVars, monVars,
    trVars,
    pfVars,
    tsVars>>
trOthers == <<sanVars, pmVars, toolVars, execVars, interpVars, regVars, cmdVars, sessVars, niVars, mxVars, enVars, lkVars, tpVars, monVars, lgVars,
    pfVars,
    tsVars>>
pfOthers == <<sanVars, pmVars, toolVars, execVars, interpVars, regVars, cmdVars, sessVars, niVars, mxVars, enVars, lkVars, tpVars, monVars, lgVars, trVars,
    tsVars>>
tsOthers == <<sanVars, pmVars, toolVars, execVars, interpVars, regVars, cmdVars, sessVars, niVars, mxVars, enVars, lkVars, tpVars, monVars, lgVars, trVars, pfVars>>

-----------------------------------------------------------------------------
(* Characters and Python string helpers *)

Lower == {"a", "b", "c", "d", "e", "f", "g", "h", "i", "j", "k", "l", "m", "n", "o", "p", "q", "r", "s", "t", "u", "v", "w", "x", "y", "z"}
Upper == {"A", "B", "C", "D", "E", "F", "G", "H", "I", "J", "K", "L", "M", "N", "O", "P", "Q", "R", "S", "T", "U", "V", "W", "X", "Y", "Z"}
Digit == {"0", "1", "2", "3", "4", "5", "6", "7", "8", "9"}

\* [a-zA-Z0-9_.-] : the class kept by _sanitize_param_name
ParamSafeChars == Lower \cup Upper \cup Digit \cup {"_", ".", "-"}

\* [a-zA-Z0-9_-] : the class kept by _generate_tool_name
ToolSafeChars == Lower \cup Upper \cup Digit \cup {"_", "-"}

Min(a, b) == IF a < b THEN a ELSE b
Max(a, b) == IF a > b THEN a ELSE b

\* s[:n]
Take(s, n) == SubSeq(s, 1, Min(n, Len(s)))

\* re.sub(r'[^<safe>]', '_', s)
ReplaceUnsafe(s, safe) == [i \in 1..Len(s) |-> IF s[i] \in safe THEN s[i] ELSE "_"]

\* s.strip(c): the part from the first to the last character other than c
StripChar(s, c) ==
    LET n == Len(s)
        IsFirst(i) == s[i] # c /\ \A j \in 1..(i - 1) : s[j] = c
        IsLast(i) == s[i] # c /\ \A j \in (i + 1)..n : s[j] = c
    IN  IF \A i \in 1..n : s[i] = c THEN <<>>
        ELSE SubSeq(s, CHOOSE i \in 1..n : IsFirst(i), CHOOSE i \in 1..n : IsLast(i))

\* s.strip('_')
StripUnderscores(s) == StripChar(s, "_")

\* re.sub(r'_+', '_', s): an underscore that follows an underscore is dropped
CollapseUnderscores(s) ==
    LET withPrev == [i \in 1..Len(s) |-> <<s[i], IF i > 1 THEN s[i - 1] ELSE "">>]
        kept == SelectSeq(withPrev, LAMBDA p : ~(p[1] = "_" /\ p[2] = "_"))
    IN  [i \in 1..Len(kept) |-> kept[i][1]]

\* a string of n copies of c
Rep(c, n) == [i \in 1..n |-> c]

-----------------------------------------------------------------------------
(* CommandManager._sanitize_param_name *)

ParamNameMaxLen == 64

ParamFallback == <<"p", "a", "r", "a", "m">>

SanitizeParamName(name) ==
    LET replaced  == ReplaceUnsafe(name, ParamSafeChars)
        stripped  == StripUnderscores(replaced)
        collapsed == CollapseUnderscores(stripped)
        sanitized == Take(collapsed, ParamNameMaxLen)
    IN  IF sanitized # <<>> THEN sanitized ELSE ParamFallback

-----------------------------------------------------------------------------
(* Inputs of the name functions *)

MaxNameLen == 3
MaxTailLen == 2

NameAlphabet == {"a", "_", ".", "-", " ", "!"}

\* every string over alphabet A of length at most n
StringsUpTo(A, n) == UNION {[1..k -> A] : k \in 0..n}

\* long names: a run of letters that ends around the 64-character limit,
\* followed by a short tail
LongNames ==
    {Rep("a", k) \o t : k \in (ParamNameMaxLen - 2)..ParamNameMaxLen,
                        t \in StringsUpTo({"a", "_"}, MaxTailLen)}

SanitizeInputs == StringsUpTo(NameAlphabet, MaxNameLen) \cup LongNames

-----------------------------------------------------------------------------
(* Specification of _sanitize_param_name applied once and twice *)

SanInit ==
    /\ name_in \in SanitizeInputs
    /\ name_out = <<>>
    /\ name_twice = <<>>

SanIdle ==
    /\ name_in = <<>>
    /\ name_out = <<>>
    /\ name_twice = <<>>

\* sanitized = self._sanitize_param_name(name)
Sanitize ==
    /\ name_out = <<>>
    /\ name_out' = <<SanitizeParamName(name_in)>>
    /\ UNCHANGED <<name_in, name_twice, sanOthers>>

\* the result fed back: self._sanitize_param_name(sanitized)
SanitizeAgain ==
    /\ name_out # <<>>
    /\ name_twice = <<>>
    /\ name_twice' = <<SanitizeParamName(name_out[1])>>
    /\ UNCHANGED <<name_in, name_out, sanOthers>>

SanNext == Sanitize \/ SanitizeAgain

\* C6: _sanitize_param_name is idempotent and its result is 1 to 64
\* characters of [A-Za-z0-9_.-].
C6_SanitizeIdempotentAndSafe ==
    /\ name_out # <<>> =>
          /\ Len(name_out[1]) \in 1..ParamNameMaxLen
          /\ \A i \in 1..Len(name_out[1]) : name_out[1][i] \in ParamSafeChars
    /\ name_twice # <<>> => name_twice[1] = name_out[1]

-----------------------------------------------------------------------------
(* Python values and dicts *)

NoneV == [t |-> "none"]
StrV(s) == [t |-> "str", s |-> s]
IntV(n) == [t |-> "int", n |-> n]
BoolV(b) == [t |-> "bool", b |-> b]
ListV(items) == [t |-> "list", items |-> items]

EmptyStr == StrV(<<>>)

\* key in d
DHas(d, k) == \E i \in 1..Len(d) : d[i][1] = k

\* d[key]
DGet(d, k) == d[CHOOSE i \in 1..Len(d) : d[i][1] = k][2]

\* d.get(key)
DGetOrNone(d, k) == IF DHas(d, k) THEN DGet(d, k) ELSE NoneV

\* d[key] = value: an existing key keeps its position, a new key is appended
DPut(d, k, v) ==
    IF DHas(d, k)
    THEN [i \in 1..Len(d) |-> IF d[i][1] = k THEN <<k, v>> ELSE d[i]]
    ELSE Append(d, <<k, v>>)

DKeys(d) == {d[i][1] : i \in 1..Len(d)}

-----------------------------------------------------------------------------
(* CommandManager.build_parameter_map *)

\* A variant that fills the sanitized name only, never the original one.
BuildParameterMapStep_OneWay(param_map, provided, param_def) ==
    LET original_name == param_def.name
        sanitized == SanitizeParamName(original_name)
    IN  IF original_name = <<>> THEN param_map
        ELSE IF DHas(provided, original_name)
        THEN DPut(param_map, sanitized, DGet(provided, original_name))
        ELSE param_map

\* the body of the loop over command.get('parameters', [])
BuildParameterMapStep(param_map, provided, param_def) ==
    LET original_name == param_def.name
        sanitized == SanitizeParamName(original_name)
    IN  IF original_name = <<>> THEN param_map
        ELSE IF DHas(provided, sanitized)
        THEN DPut(param_map, original_name, DGet(provided, sanitized))
        ELSE IF DHas(provided, original_name)
        THEN DPut(param_map, sanitized, DGet(provided, original_name))
        ELSE param_map

RECURSIVE BuildParameterMapLoop(_, _, _)
BuildParameterMapLoop(param_map, provided, params) ==
    IF params = <<>> THEN param_map
    ELSE BuildParameterMapLoop(
             BuildParameterMapStep(param_map, provided, Head(params)),
             provided, Tail(params))

NoCommand == [none |-> TRUE]

BuildParameterMap(command, provided) ==
    IF command = NoCommand THEN provided
    ELSE BuildParameterMapLoop(provided, provided, command.parameters)

-----------------------------------------------------------------------------
(* Inputs of build_parameter_map *)

MaxParams == 2
MaxProvided == 2

LongName1 == Rep("a", ParamNameMaxLen - 1) \o <<"_", "b">>
LongName2 == Rep("a", ParamNameMaxLen - 1) \o <<"_">>

\* parameter names as authored: two that collide after sanitisation, the
\* empty name, and two around the 64-character limit
PmNames == {<<"a", " ", "b">>, <<"a", "!", "b">>, <<>>, LongName1, LongName2}

PmKeys ==
    (PmNames \ {<<>>}) \cup {SanitizeParamName(n) : n \in PmNames}
        \cup {SanitizeParamName(LongName2), <<"x">>}

PmValues == {EmptyStr, StrV(<<"v">>)}

\* sequences over S of length at most n
SeqsUpTo(S, n) == UNION {[1..k -> S] : k \in 0..n}

\* dicts with at most n keys from K and values from V, one per key set and
\* value assignment (the keys in the order of one enumeration of the set)
RECURSIVE SetToSeq(_)
SetToSeq(S) ==
    IF S = {} THEN <<>>
    ELSE LET x == CHOOSE y \in S : TRUE IN <<x>> \o SetToSeq(S \ {x})

DictOf(f) ==
    LET ks == SetToSeq(DOMAIN f) IN [i \in 1..Len(ks) |-> <<ks[i], f[ks[i]]>>]

DictsUpTo(K, V, n) ==
    UNION {{DictOf(f) : f \in [X -> V]} :
              X \in {Y \in SUBSET K : Cardinality(Y) <= n}}

PmCommands == {[parameters |-> ps] : ps \in SeqsUpTo({[name |-> n] : n \in PmNames}, MaxParams)}

-----------------------------------------------------------------------------
(* Specification of build_parameter_map *)

PmInit ==
    /\ pm_command \in PmCommands
    /\ pm_provided \in DictsUpTo(PmKeys, PmValues, MaxProvided)
    /\ pm_result = <<>>

PmIdle ==
    /\ pm_command = NoCommand
    /\ pm_provided = <<>>
    /\ pm_result = <<>>

\* param_map = manager.build_parameter_map(command, parameters)
CallBuildParameterMap ==
    /\ pm_result = <<>>
    /\ pm_result' = <<BuildParameterMap(pm_command, pm_provided)>>
    /\ UNCHANGED <<pm_command, pm_provided, pmOthers>>

PmNext == CallBuildParameterMap

-----------------------------------------------------------------------------
(* Properties of build_parameter_map *)

PmParams == pm_command.parameters
PmOriginal(i) == PmParams[i].name
PmSanitized(i) == SanitizeParamName(PmParams[i].name)
PmNamed(i) == DHas(pm_provided, PmOriginal(i)) \/ DHas(pm_provided, PmSanitized(i))

\* no other parameter definition, under a different name, uses one of the
\* two names of parameter i
PmNamesUnshared(i) ==
    \A j \in 1..Len(PmParams) :
        (PmOriginal(j) # <<>> /\ PmOriginal(j) # PmOriginal(i)) =>
            {PmOriginal(j), PmSanitized(j)} \cap {PmOriginal(i), PmSanitized(i)} = {}

C22_OnlyAddsMissingKeys ==
    pm_result # <<>> =>
        LET result == pm_result[1] IN
        /\ \A k \in DKeys(pm_provided) :
              DHas(result, k) /\ DGet(result, k) = DGet(pm_provided, k)
        /\ \A k \in DKeys(result) \ DKeys(pm_provided) :
              \E i \in 1..Len(PmParams) :
                  /\ PmOriginal(i) # <<>>
                  /\ \/ k = PmOriginal(i) /\ DHas(pm_provided, PmSanitized(i))
                     \/ k = PmSanitized(i) /\ DHas(pm_provided, PmOriginal(i))
        /\ \A i \in 1..Len(PmParams) :
              (PmOriginal(i) # <<>> /\ ~PmNamed(i) /\ PmNamesUnshared(i)) =>
                  ~DHas(result, PmOriginal(i)) /\ ~DHas(result, PmSanitized(i))
        /\ \A k \in DKeys(result) : DGet(result, k) # NoneV

-----------------------------------------------------------------------------
(* CommandManager: enabled commands, virtual MCP commands, tool names *)

ToolBaseMaxLen == 120
ToolNameMaxLen == 128

ToolFallback == <<"t", "o", "o", "l">>

DigitChar(d) == <<"0", "1", "2", "3", "4", "5", "6", "7", "8", "9">>[d + 1]

\* str(n) for n >= 0
RECURSIVE IntToStr(_)
IntToStr(n) ==
    IF n < 10 THEN <<DigitChar(n)>>
    ELSE IntToStr(n \div 10) \o <<DigitChar(n % 10)>>

\* the command one discovered tool entry is turned into
VirtualCommand(entry) ==
    LET safe_tool_name == ReplaceUnsafe(entry.tool, ParamSafeChars)
    IN  [id |-> <<"m", "c", "p", ".">> \o entry.server_id \o <<".">> \o safe_tool_name,
         enabled |-> TRUE,
         action |-> [type |-> "mcp", server_id |-> entry.server_id, tool |-> entry.tool],
         source |-> "mcp"]

\* entries without a server id or a tool name are skipped
VirtualMcpCommands(entries) ==
    LET kept == SelectSeq(entries, LAMBDA e : e.server_id # <<>> /\ e.tool # <<>>)
    IN  [i \in 1..Len(kept) |-> VirtualCommand(kept[i])]

\* get_enabled_commands(include_virtual=True)
EnabledCommands(cmds, entries) ==
    SelectSeq(cmds, LAMBDA c : c.enabled)
        \o SelectSeq(VirtualMcpCommands(entries), LAMBDA c : c.enabled)

\* get_command(command_id): a stored command first, then the virtual ones;
\* <<>> stands for None
GetCommand(cmds, entries, command_id) ==
    LET stored == SelectSeq(cmds, LAMBDA c : c.id = command_id)
        virtual == SelectSeq(VirtualMcpCommands(entries), LAMBDA c : c.id = command_id)
    IN  IF stored # <<>> THEN <<stored[1]>>
        ELSE IF virtual # <<>> THEN <<virtual[1]>>
        ELSE <<>>

ToolNameBase(command_id) ==
    LET replaced == ReplaceUnsafe(command_id, ToolSafeChars)
        stripped == StripUnderscores(CollapseUnderscores(replaced))
        base == IF stripped = <<>> THEN ToolFallback ELSE stripped
    IN  Take(base, ToolBaseMaxLen)

\* the while loop of _generate_tool_name
RECURSIVE ToolNameLoop(_, _, _, _, _)
ToolNameLoop(base, candidate, suffix, name_map, command_id) ==
    IF DHas(name_map, candidate) /\ DGet(name_map, candidate) # command_id
    THEN LET suffix_str == <<"_">> \o IntToStr(suffix)
             available == ToolNameMaxLen - Len(suffix_str)
             trimmed == Take(base, Max(1, available))
             joined == StripUnderscores(trimmed \o suffix_str)
             next == IF joined # <<>> THEN joined
                     ELSE ToolFallback \o <<"_">> \o IntToStr(suffix)
         IN  ToolNameLoop(base, next, suffix + 1, name_map, command_id)
    ELSE Take(candidate, ToolNameMaxLen)

\* A variant that returns the sanitized id without looking for collisions.
GenerateToolName_NoSuffix(name_map, command_id) == ToolNameBase(command_id)

GenerateToolName(name_map, command_id) ==
    LET base == ToolNameBase(command_id)
    IN  ToolNameLoop(base, base, 1, name_map, command_id)

\* the loop of get_claude_tools: acc = [map |-> _tool_name_map, tools |-> tools]
RECURSIVE ClaudeToolsLoop(_, _)
ClaudeToolsLoop(acc, enabled) ==
    IF enabled = <<>> THEN acc
    ELSE LET command == Head(enabled)
             tool_name == GenerateToolName(acc.map, command.id)
         IN  ClaudeToolsLoop(
                 [map |-> DPut(acc.map, tool_name, command.id),
                  tools |-> Append(acc.tools, [name |-> tool_name, command_id |-> command.id])],
                 Tail(enabled))

\* get_claude_tools: the map is reset, then filled in one pass
ClaudeTools(cmds, entries) ==
    ClaudeToolsLoop([map |-> <<>>, tools |-> <<>>], EnabledCommands(cmds, entries))

\* resolve_tool_command_id
ResolveToolCommandId(name_map, tool_name) ==
    IF DHas(name_map, tool_name) THEN DGet(name_map, tool_name) ELSE tool_name

-----------------------------------------------------------------------------
(* parse_command *)

NoResult == [kind |-> "none"]

\* the result for a classifier answer that uses the tool tool_name
ParseToolUse(cmds, entries, tool_name) ==
    LET command_id == tool_name
        command == GetCommand(cmds, entries, command_id)
    IN  [kind |-> "tool_use", returned |-> tool_name,
         success |-> command # <<>>, command_id |-> <<command_id>>]

\* every result parse_command can return, given the tools it offered: no
\* enabled command; the classifier call failed or raised; the classifier
\* answered with text only; the classifier used one of the offered tools
ParseOutcomes(cmds, entries, offered) ==
    IF offered = <<>>
    THEN {[kind |-> "no_tools", success |-> FALSE, command_id |-> <<>>]}
    ELSE {[kind |-> "error", success |-> FALSE, command_id |-> <<>>],
          [kind |-> "no_match", success |-> FALSE, command_id |-> <<>>]}
         \cup {ParseToolUse(cmds, entries, offered[i].name) : i \in 1..Len(offered)}

-----------------------------------------------------------------------------
(* Inputs: the command registry and the discovered tools *)

MaxCommands == 2
MaxMcpTools == 2

LongId1 == Rep("a", ToolBaseMaxLen) \o <<"x">>
LongId2 == Rep("a", ToolBaseMaxLen) \o <<"y">>

CmdIds ==
    {<<"a", ".", "b">>, <<"a", " ", "b">>, <<"a", "_", "b">>,
     <<"!">>, LongId1, LongId2}

McpEntries ==
    {[server_id |-> <<"s">>, tool |-> t] : t \in {<<"t">>, <<"t", "!">>, <<"t", "?">>}}

\* discovered tools: a server reports each tool name once
Discovered ==
    {es \in SeqsUpTo(McpEntries, MaxMcpTools) :
        \A i, j \in 1..Len(es) : i # j => es[i] # es[j]}

\* registries: stored commands have pairwise distinct ids (dict keys)
Registries ==
    {cs \in SeqsUpTo([id : CmdIds, enabled : BOOLEAN, source : {"user"}], MaxCommands) :
        \A i, j \in 1..Len(cs) : i # j => cs[i].id # cs[j].id}

-----------------------------------------------------------------------------
(* Specification of the classifier round trip *)

ToolInit ==
    /\ commands \in Registries
    /\ mcp_tools \in Discovered
    /\ tool_name_map = <<>>
    /\ tools = <<>>
    /\ parse_result = NoResult

ToolIdle ==
    /\ commands = <<>>
    /\ mcp_tools = <<>>
    /\ tool_name_map = <<>>
    /\ tools = <<>>
    /\ parse_result = NoResult

\* tools = manager.get_claude_tools()
GetClaudeTools ==
    \E pass \in {ClaudeTools(commands, mcp_tools)} :
        /\ tool_name_map' = pass.map
        /\ tools' = pass.tools
        /\ UNCHANGED <<commands, mcp_tools, parse_result, toolOthers>>

\* parse_command: the tools are rebuilt, the classifier answers, and the
\* answer is turned into a result
ParseCommand ==
    \E pass \in {ClaudeTools(commands, mcp_tools)} :
        /\ tool_name_map' = pass.map
        /\ tools' = pass.tools
        /\ parse_result' \in ParseOutcomes(commands, mcp_tools, pass.tools)
        /\ UNCHANGED <<commands, mcp_tools, toolOthers>>

ToolNext == GetClaudeTools \/ ParseCommand

-----------------------------------------------------------------------------
(* Properties of the tool names and of the classifier round trip *)

ToolIdsDistinct ==
    \A i, j \in 1..Len(tools) : i # j => tools[i].command_id # tools[j].command_id

ToolNames == {tools[i].name : i \in 1..Len(tools)}

VirtualIdOf(entry) ==
    <<"m", "c", "p", ".">> \o entry.server_id \o <<".">> \o ReplaceUnsafe(entry.tool, ParamSafeChars)

ProbeNames == CmdIds \cup {ToolNameBase(id) : id \in CmdIds} \cup {<<"z">>}

\* C1: when the classifier returns the tool name generated for an offered
\* command, parse_command succeeds with that command's original id.
C1_ParseResolvesToolName ==
    parse_result.kind = "tool_use" =>
        \A i \in 1..Len(tools) :
            tools[i].name = parse_result.returned =>
                /\ parse_result.success
                /\ parse_result.command_id = <<tools[i].command_id>>

\* C7: in one get_claude_tools pass over commands with pairwise distinct ids
\* the tool names are pairwise distinct, at most 128 characters long, and
\* resolve_tool_command_id maps each back to its command's id; a name that
\* was not generated resolves to itself.
C7_ToolNamesUniqueAndInvertible ==
    ToolIdsDistinct =>
        /\ \A i, j \in 1..Len(tools) : i # j => tools[i].name # tools[j].name
        /\ \A i \in 1..Len(tools) :
              /\ Len(tools[i].name) <= ToolNameMaxLen
              /\ ResolveToolCommandId(tool_name_map, tools[i].name) = tools[i].command_id
        /\ \A n \in ProbeNames \ ToolNames : ResolveToolCommandId(tool_name_map, n) = n

\* two commands whose ids sanitize to one base got different names, one of
\* them with a numeric suffix, and a third name resolves to itself
C7_Witness ==
    /\ ToolIdsDistinct
    /\ \E i, j \in 1..Len(tools) :
          /\ i < j
          /\ ToolNameBase(tools[i].command_id) = ToolNameBase(tools[j].command_id)
          /\ tools[i].name = ToolNameBase(tools[i].command_id)
          /\ tools[j].name = tools[i].name \o <<"_", "1">>
          /\ ResolveToolCommandId(tool_name_map, tools[j].name) = tools[j].command_id
    /\ ResolveToolCommandId(tool_name_map, <<"z">>) = <<"z">>

-----------------------------------------------------------------------------
(* execute_mcp *)

\* value not in (None, "")
NonEmpty(v) == v # NoneV /\ v # EmptyStr

\* defined_names, in the order of the parameter list
DefinedNames(command) ==
    LET named == SelectSeq(command.parameters, LAMBDA p : p.name # <<>>)
    IN  [i \in 1..Len(named) |-> named[i].name]

\* for name in defined_names: a present, non-empty value overrides
RECURSIVE McpArgsDefined(_, _, _)
McpArgsDefined(args, param_map, names) ==
    IF names = <<>> THEN args
    ELSE LET value == DGetOrNone(param_map, Head(names))
         IN  McpArgsDefined(IF NonEmpty(value) THEN DPut(args, Head(names), value) ELSE args,
                            param_map, Tail(names))

\* for key, value in param_map.items(): the failsafe loop
RECURSIVE McpArgsRemaining(_, _, _)
McpArgsRemaining(args, items, defined) ==
    IF items = <<>> THEN args
    ELSE LET key == Head(items)[1]
             value == Head(items)[2]
             next == IF DHas(args, key) \/ ~NonEmpty(value) THEN args
                     ELSE IF defined = {} \/ key \in defined THEN DPut(args, key, value)
                     ELSE args
         IN  McpArgsRemaining(next, Tail(items), defined)

\* the argument dict execute_mcp builds
McpArgs(command, parameters) ==
    LET param_map == BuildParameterMap(command, parameters)
        names == DefinedNames(command)
        defined == {names[i] : i \in 1..Len(names)}
        args1 == McpArgsDefined(command.action.default_args, param_map, names)
    IN  McpArgsRemaining(args1, param_map, defined)

\* a dict as a function from its keys
AsMap(d) == [k \in DKeys(d) |-> DGet(d, k)]

NoCall == [made |-> FALSE]

\* call_tool(server_id, tool_name, arguments=args or None, ...)
McpCall(command, args) ==
    [made |-> TRUE, server_id |-> command.action.server_id, tool |-> command.action.tool,
     arguments |-> AsMap(args)]

\* what call_tool can do: raise a config error, an execution error or any
\* other exception, or return a result with or without isError
CallOutcomes == {"config_error", "exec_error", "exception", "is_error", "ok"}

McpResult(outcome) ==
    [success |-> outcome = "ok",
     error |-> CASE outcome = "ok" -> "none"
                 [] outcome = "is_error" -> "MCP tool returned an error"
                 [] outcome = "exception" -> "MCP execution error"
                 [] OTHER -> "message of the error raised",
     output |-> CASE outcome = "ok" -> "content"
                  [] outcome = "is_error" -> "raw result"
                  [] OTHER -> "none"]

CancelledResult ==
    [success |-> FALSE, error |-> "Execution cancelled by user", output |-> "none"]

-----------------------------------------------------------------------------
(* Inputs of execute_mcp *)

ExNames == {<<"a", " ", "b">>, <<"c">>}
ExKeys == ExNames \cup {<<"a", "_", "b">>, <<"x">>}
ExValues == {NoneV, EmptyStr, StrV(<<"v">>), IntV(0)}
ExDefaults == {<<>>, <<<<<<"c">>, StrV(<<"d">>)>>>>, <<<<<<"k">>, StrV(<<"d">>)>>>>}

ExCommands ==
    {[parameters |-> ps,
      action |-> [type |-> "mcp", server_id |-> <<"s">>, tool |-> <<"t">>, default_args |-> d]] :
        ps \in SeqsUpTo({[name |-> n] : n \in ExNames}, MaxParams), d \in ExDefaults}

-----------------------------------------------------------------------------
(* Specification of execute_mcp *)

ExecInit ==
    /\ ex_command \in ExCommands
    /\ ex_parameters \in DictsUpTo(ExKeys, ExValues, MaxProvided)
    /\ mcp_call = NoCall
    /\ exec_result = NoResult
    /\ speech = "none"

ExecIdle ==
    /\ ex_command = NoCommand
    /\ ex_parameters = <<>>
    /\ mcp_call = NoCall
    /\ exec_result = NoResult
    /\ speech = "none"

\* execute_mcp with confirm_mode set and the user declining
ExecuteMcpDeclined ==
    /\ exec_result = NoResult
    /\ exec_result' = CancelledResult
    /\ UNCHANGED <<ex_command, ex_parameters, mcp_call, speech, execOthers>>

\* execute_mcp without confirm_mode, or with the user confirming; with a
\* transcript and a server flagged read_aloud the speech thread is started
\* after a returned result
ExecuteMcp ==
    /\ exec_result = NoResult
    /\ \E outcome \in CallOutcomes, speak \in BOOLEAN :
          /\ mcp_call' = McpCall(ex_command, McpArgs(ex_command, ex_parameters))
          /\ exec_result' = McpResult(outcome)
          /\ speech' = IF speak /\ outcome \in {"ok", "is_error"} THEN "started" ELSE "none"
    /\ UNCHANGED <<ex_command, ex_parameters, execOthers>>

ExecNext == ExecuteMcpDeclined \/ ExecuteMcp

-----------------------------------------------------------------------------
(* Properties of execute_mcp *)

\* the argument map the claim describes: default_args, overridden by the
\* present non-empty value of every defined parameter, plus every other
\* provided key with a non-empty value
ClaimedArgs(command, parameters) ==
    LET param_map == BuildParameterMap(command, parameters)
        names == DefinedNames(command)
        defined == {names[i] : i \in 1..Len(names)}
        overriding == {n \in defined : NonEmpty(DGetOrNone(param_map, n))}
        defaults == DKeys(command.action.default_args)
        others == {k \in DKeys(parameters) \ (defaults \cup overriding) :
                      NonEmpty(DGet(parameters, k))}
    IN  [k \in defaults \cup overriding \cup others |->
            IF k \in overriding THEN DGet(param_map, k)
            ELSE IF k \in defaults THEN DGet(command.action.default_args, k)
            ELSE DGet(parameters, k)]

\* C5: the arguments passed to call_tool are default_args, overridden by the
\* present non-empty value of every defined parameter, plus every other
\* provided key whose value is non-empty, with or without defined parameters.
C5_McpArgumentMap ==
    mcp_call.made => mcp_call.arguments = ClaimedArgs(ex_command, ex_parameters)

-----------------------------------------------------------------------------
(* interpolate_parameters *)

\* s.replace(old, new) for a non-empty old: leftmost occurrences, not overlapping
RECURSIVE StrReplace(_, _, _)
StrReplace(s, old, new) ==
    IF Len(s) < Len(old) THEN s
    ELSE IF SubSeq(s, 1, Len(old)) = old
    THEN new \o StrReplace(SubSeq(s, Len(old) + 1, Len(s)), old, new)
    ELSE <<Head(s)>> \o StrReplace(Tail(s), old, new)

\* sep.join(parts)
RECURSIVE StrJoin(_, _)
StrJoin(parts, sep) ==
    IF parts = <<>> THEN <<>>
    ELSE IF Len(parts) = 1 THEN parts[1]
    ELSE parts[1] \o sep \o StrJoin(Tail(parts), sep)

\* json.dumps of a list of integers
JsonDumps(value) ==
    <<"[">> \o StrJoin([i \in 1..Len(value.items) |-> IntToStr(value.items[i])],
                       <<",", " ">>) \o <<"]">>

\* the string a value is substituted as
StrForm(value) ==
    CASE value.t = "str" -> value.s
      [] value.t = "int" -> IntToStr(value.n)
      [] value.t = "bool" -> IF value.b THEN <<"T", "r", "u", "e">>
                             ELSE <<"F", "a", "l", "s", "e">>
      [] OTHER -> JsonDumps(value)

Whitespace == {" ", "\t", "\n", "\r"}

\* ' '.join(s.split())
NormalizeWhitespace(s) ==
    LET spaced == [i \in 1..Len(s) |-> IF s[i] \in Whitespace THEN " " ELSE s[i]]
        withPrev == [i \in 1..Len(s) |-> <<spaced[i], IF i > 1 THEN spaced[i - 1] ELSE "">>]
        kept == SelectSeq(withPrev, LAMBDA p : ~(p[1] = " " /\ p[2] = " "))
    IN  StripChar([i \in 1..Len(kept) |-> kept[i][1]], " ")

\* the position of the first character of s at or after i that is in chars,
\* 0 if there is none
FirstIn(s, i, chars) ==
    IF \E j \in i..Len(s) : s[j] \in chars
    THEN CHOOSE j \in i..Len(s) : s[j] \in chars /\ \A k \in i..(j - 1) : s[k] \notin chars
    ELSE 0

\* the matches <<first, last>> of \{[^}]+\} in s from position i on
RECURSIVE PlaceholderSpans(_, _)
PlaceholderSpans(s, i) ==
    IF i > Len(s) THEN <<>>
    ELSE LET close == FirstIn(s, i + 1, {"}"})
         IN  IF s[i] = "{" /\ close >= i + 2
             THEN <<<<i, close>>>> \o PlaceholderSpans(s, close + 1)
             ELSE PlaceholderSpans(s, i + 1)

\* re.findall(r'\{([^}]+)\}', content)
PlaceholderNames(content) ==
    LET spans == PlaceholderSpans(content, 1)
    IN  [k \in 1..Len(spans) |-> SubSeq(content, spans[k][1] + 1, spans[k][2] - 1)]

\* A variant that leaves the unreplaced placeholders in the text.
RemovePlaceholders_Keep(s) == s

\* re.sub(r'\{[^}]+\}', '', s)
RemovePlaceholders(s) ==
    LET spans == PlaceholderSpans(s, 1)
        inside == {i \in 1..Len(s) : \E k \in 1..Len(spans) : spans[k][1] <= i /\ i <= spans[k][2]}
        marked == [i \in 1..Len(s) |-> <<s[i], i \in inside>>]
        kept == SelectSeq(marked, LAMBDA m : ~m[2])
    IN  [i \in 1..Len(kept) |-> kept[i][1]]

Placeholder(name) == <<"{">> \o name \o <<"}">>

\* the loop of process_conditional over params_in_section
RECURSIVE SubstituteNames(_, _, _)
SubstituteNames(text, names, param_map) ==
    IF names = <<>> THEN text
    ELSE SubstituteNames(
             StrReplace(text, Placeholder(Head(names)), StrForm(DGet(param_map, Head(names)))),
             Tail(names), param_map)

\* A variant of process_conditional that keeps the literal text of a section
\* one of whose parameters is missing.
ProcessConditional_KeepText(content, param_map) ==
    LET names == PlaceholderNames(content)
        present == SelectSeq(names, LAMBDA n : NonEmpty(DGetOrNone(param_map, n)))
    IN  SubstituteNames(content, present, param_map)

\* process_conditional
ProcessConditional(content, param_map) ==
    LET names == PlaceholderNames(content)
        all_present == \A k \in 1..Len(names) : NonEmpty(DGetOrNone(param_map, names[k]))
    IN  IF all_present THEN SubstituteNames(content, names, param_map) ELSE <<>>

\* re.sub(r'\[([^\[\]]+)\]', process_conditional, s), from position i on
RECURSIVE ConditionalSections(_, _, _)
ConditionalSections(s, i, param_map) ==
    IF i > Len(s) THEN <<>>
    ELSE LET bracket == FirstIn(s, i + 1, {"[", "]"})
         IN  IF s[i] = "[" /\ bracket >= i + 2 /\ s[bracket] = "]"
             THEN ProcessConditional(SubSeq(s, i + 1, bracket - 1), param_map)
                      \o ConditionalSections(s, bracket + 1, param_map)
             ELSE <<s[i]>> \o ConditionalSections(s, i + 1, param_map)

\* A variant of the loop over param_map.items() that substitutes the
\* Python repr of a string (quoted) instead of the string.
SubstituteItems_Quoted(text, items) ==
    LET Quoted(v) == IF v.t = "str" THEN <<"'">> \o v.s \o <<"'">> ELSE StrForm(v)
        F[k \in 0..Len(items)] ==
            IF k = 0 THEN text
            ELSE IF items[k][2] = NoneV THEN F[k - 1]
            ELSE StrReplace(F[k - 1], Placeholder(items[k][1]), Quoted(items[k][2]))
    IN  F[Len(items)]

\* for key, value in param_map.items(): values other than None are substituted
RECURSIVE SubstituteItems(_, _)
SubstituteItems(text, items) ==
    IF items = <<>> THEN text
    ELSE LET key == Head(items)[1]
             value == Head(items)[2]
         IN  SubstituteItems(
                 IF value = NoneV THEN text
                 ELSE StrReplace(text, Placeholder(key), StrForm(value)),
                 Tail(items))

InterpolateParameters(template, parameters, command) ==
    LET param_map == IF command = NoCommand THEN parameters
                     ELSE BuildParameterMap(command, parameters)
        sections == ConditionalSections(template, 1, param_map)
        substituted == SubstituteItems(sections, param_map)
        cleaned == NormalizeWhitespace(substituted)
        removed == RemovePlaceholders(cleaned)
    IN  NormalizeWhitespace(removed)

-----------------------------------------------------------------------------
(* Inputs of interpolate_parameters *)

MaxTokens == 4

KeyX == <<"x">>
KeyY == <<"y">>

TemplateTokens ==
    {<<"[">>, <<"]">>, Placeholder(KeyX), Placeholder(KeyY), <<"a">>, <<" ">>}

RECURSIVE Flatten(_)
Flatten(parts) == IF parts = <<>> THEN <<>> ELSE Head(parts) \o Flatten(Tail(parts))

Templates == {Flatten(ts) : ts \in SeqsUpTo(TemplateTokens, MaxTokens)}

ValuesX ==
    {NoneV, EmptyStr, StrV(<<"v">>), StrV(<<" ">>), StrV(Placeholder(KeyY)),
     IntV(5), BoolV(TRUE), ListV(<<1>>)}
ValuesY == {StrV(<<"w">>)}

\* parameter dicts over the keys x and y, in either insertion order
ParameterDicts ==
    {<<>>}
        \cup {<<<<KeyX, v>>>> : v \in ValuesX}
        \cup {<<<<KeyY, w>>>> : w \in ValuesY}
        \cup {<<<<KeyX, v>>, <<KeyY, w>>>> : v \in ValuesX, w \in ValuesY}
        \cup {<<<<KeyY, w>>, <<KeyX, v>>>> : v \in ValuesX, w \in ValuesY}

-----------------------------------------------------------------------------
(* Specification of interpolate_parameters *)

InterpInit ==
    /\ it_template \in Templates
    /\ it_parameters \in ParameterDicts
    /\ it_out = <<>>

InterpIdle ==
    /\ it_template = <<>>
    /\ it_parameters = <<>>
    /\ it_out = <<>>

\* interpolate_parameters(template, parameters) without a command definition
Interpolate ==
    /\ it_out = <<>>
    /\ it_out' = <<InterpolateParameters(it_template, it_parameters, NoCommand)>>
    /\ UNCHANGED <<it_template, it_parameters, interpOthers>>

InterpNext == Interpolate

-----------------------------------------------------------------------------
(* Properties of interpolate_parameters *)

Brackets == {"[", "]"}
Braces == {"{", "}"}

HasChar(s, chars) == \E i \in 1..Len(s) : s[i] \in chars

\* the template is one bracketed section: [content], content without brackets
SingleSection(template) ==
    /\ Len(template) >= 3
    /\ template[1] = "["
    /\ template[Len(template)] = "]"
    /\ ~HasChar(SubSeq(template, 2, Len(template) - 1), Brackets)

SectionContent(template) == SubSeq(template, 2, Len(template) - 1)

\* every parameter referenced in the text is present and non-empty
AllPresent(text, parameters) ==
    \A k \in 1..Len(PlaceholderNames(text)) :
        NonEmpty(DGetOrNone(parameters, PlaceholderNames(text)[k]))

\* no value substituted for a placeholder of the text contains a brace
ValuesBraceFree(text, parameters) ==
    \A k \in 1..Len(PlaceholderNames(text)) :
        LET value == DGetOrNone(parameters, PlaceholderNames(text)[k])
        IN  value # NoneV => ~HasChar(StrForm(value), Braces)

\* the text with every placeholder replaced, at its position, by the string
\* form of its parameter's value
RECURSIVE Substituted(_, _, _)
Substituted(text, i, parameters) ==
    IF i > Len(text) THEN <<>>
    ELSE LET close == FirstIn(text, i + 1, {"}"})
         IN  IF text[i] = "{" /\ close >= i + 2
             THEN StrForm(DGet(parameters, SubSeq(text, i + 1, close - 1)))
                      \o Substituted(text, close + 1, parameters)
             ELSE <<text[i]>> \o Substituted(text, i + 1, parameters)

PlaceholderAt(template, i) ==
    /\ i + 2 <= Len(template)
    /\ SubSeq(template, i, i + 2) = Placeholder(KeyX)
    /\ ~HasChar(SubSeq(template, 1, i - 1), Brackets \cup Braces)
    /\ ~HasChar(SubSeq(template, i + 3, Len(template)), Brackets \cup Braces)

\* the template with the placeholder at position i replaced by text
WithValueAt(template, i, text) ==
    SubSeq(template, 1, i - 1) \o text \o SubSeq(template, i + 3, Len(template))

-----------------------------------------------------------------------------
(* interpolate_parameters on templates with free braces *)

MaxBraceTokens == 4

BraceTokens ==
    {<<"{">>, <<"}">>, Placeholder(KeyX), <<"[">>, <<"]">>, <<"a">>, <<" ">>}

BraceTemplates == {Flatten(ts) : ts \in SeqsUpTo(BraceTokens, MaxBraceTokens)}

BraceValues ==
    {NoneV, EmptyStr, StrV(<<"v">>), StrV(<<" ", "\t">>), StrV(<<"{">>),
     StrV(<<"}">>), StrV(<<"{", "a", "}">>)}

BraceDicts == {<<>>} \cup {<<<<KeyX, v>>>> : v \in BraceValues}

BracesInit ==
    /\ it_template \in BraceTemplates
    /\ it_parameters \in BraceDicts
    /\ it_out = <<>>

\* s has a match of \{[^}]+\}: an opening brace, one or more characters
\* other than a closing brace, a closing brace
HasPlaceholder(s) ==
    \E i, j \in 1..Len(s) :
        /\ s[i] = "{"
        /\ s[j] = "}"
        /\ j >= i + 2
        /\ \A k \in (i + 1)..(j - 1) : s[k] # "}"

\* C23: for every template and parameter map, the output of
\* interpolate_parameters contains no placeholder {...} with non-empty
\* content, has no leading or trailing whitespace and has no run of two or
\* more whitespace characters.
C23_OutputCleaned ==
    it_out # <<>> =>
        LET out == it_out[1] IN
        /\ ~HasPlaceholder(out)
        /\ out # <<>> => (out[1] \notin Whitespace /\ out[Len(out)] \notin Whitespace)
        /\ \A i \in 1..(Len(out) - 1) :
              ~(out[i] \in Whitespace /\ out[i + 1] \in Whitespace)

\* a template that starts with a blank and an unresolved placeholder has been
\* rendered without the placeholder and without the blanks around it
C23_Witness ==
    /\ it_out # <<>>
    /\ it_template = <<" ", "{", "x", "}", " ", "a">>
    /\ DGetOrNone(it_parameters, KeyX) = NoneV
    /\ it_out[1] = <<"a">>

-----------------------------------------------------------------------------
(* The MCP server registry, its tool cache and the secret store *)

\* A `with self._lock:` block is one step: the accesses made without the lock
\* (the registry read of list_tools, the cache pop of delete_server) are single
\* dict operations, and none of them reads or writes what a locked block of
\* another call has half done.

MCP_TOOL_CACHE_TTL == 300

ServerIds == {"s"}
SecretKeys == {"K1", "K2"}
Threads == {"t1", "t2"}

NoServer == [none |-> TRUE]
NoEntry == [none |-> TRUE]
NoTools == [none |-> TRUE]
NoOutcome == [kind |-> "none"]

Returned(value) == [kind |-> "return", value |-> value]
Raised(error) == [kind |-> "raise", error |-> error]

\* _secret_keys(server)
SecretKeysOf(server) == server.secret_fields

\* list_secret_flags(server_id, keys)
ListSecretFlags(store, server_id, keys) ==
    {<<keys[i], <<server_id, keys[i]>> \in store>> : i \in 1..Len(keys)}

\* get_server(server_id): the config with its secret flags, or None
GetServer(registry, store, server_id) ==
    IF registry[server_id] = NoServer THEN NoServer
    ELSE [config |-> registry[server_id],
          secretsSet |-> ListSecretFlags(store, server_id, SecretKeysOf(registry[server_id]))]

\* what a discovery fetch returns: the tools the server offers for the
\* config the session was opened with and the secrets read when it was opened
FetchedTools(server, version) == [config |-> server.rev, secrets |-> version]

\* A variant of the cache-hit condition that still serves an entry whose age
\* equals the TTL.
CacheHit_Inclusive(cache_entry, force_refresh, time) ==
    /\ cache_entry # NoEntry
    /\ ~force_refresh
    /\ time - cache_entry.timestamp <= MCP_TOOL_CACHE_TTL

\* the cache-hit condition of _get_tools_for_server
CacheHit(cache_entry, force_refresh, time) ==
    /\ cache_entry # NoEntry
    /\ ~force_refresh
    /\ time - cache_entry.timestamp < MCP_TOOL_CACHE_TTL

\* a thread that is in no call
IdleThread ==
    [pc |-> "idle", op |-> "none", server_id |-> "", payload |-> NoServer,
     secrets |-> <<>>, force_refresh |-> FALSE, server |-> NoServer, keys |-> <<>>,
     tools |-> NoTools, written |-> 0, floor |-> [config |-> 0, secrets |-> 0],
     fetches |-> 0, result |-> NoOutcome]

\* the call has ended: only its arguments, the number of fetches it made and
\* its outcome are kept
Ended(call, outcome) ==
    [IdleThread EXCEPT !.pc = "done", !.op = call.op, !.server_id = call.server_id,
                    !.force_refresh = call.force_refresh, !.server = call.server,
                    !.keys = IF call.op = "update_secrets" THEN call.keys ELSE <<>>,
                    !.floor = call.floor, !.fetches = call.fetches, !.result = outcome]

-----------------------------------------------------------------------------
(* Inputs of the registry calls *)

MaxCalls == 3
MaxTicks == 2
TickSeconds == 150

\* secret_fields of a payload
SecretFieldChoices == {<<>>, <<"K1">>}

\* the secrets argument of update_secrets: <<key, value>> items, the value
\* "" standing for None or the empty string
SecretPayloads ==
    {<<<<"K2", "v">>>>, <<<<"K1", "v">>, <<"K2", "v">>>>, <<<<"K1", "">>>>}

\* the registry file found at construction: empty, or one server
LoadedServers ==
    {[id \in ServerIds |-> NoServer]}
        \cup {[id \in ServerIds |-> [id |-> id, rev |-> 0, secret_fields |-> <<"K1">>]]}

-----------------------------------------------------------------------------
(* Specification of the registry *)

RegInit ==
    /\ servers \in LoadedServers
    /\ tool_cache = [id \in ServerIds |-> NoEntry]
    /\ persisted = servers
    /\ secrets = {}
    /\ secret_version = [id \in ServerIds |-> 0]
    /\ config_version = [id \in ServerIds |-> 0]
    /\ threads = [t \in Threads |-> IdleThread]
    /\ now = 0
    /\ calls = 0
    /\ secrets_set = {}
    /\ settled = [id \in ServerIds |-> [config |-> 0, secrets |-> 0]]

RegIdle ==
    /\ servers = [id \in ServerIds |-> NoServer]
    /\ tool_cache = [id \in ServerIds |-> NoEntry]
    /\ persisted = servers
    /\ secrets = {}
    /\ secret_version = [id \in ServerIds |-> 0]
    /\ config_version = [id \in ServerIds |-> 0]
    /\ threads = [t \in Threads |-> IdleThread]
    /\ now = 0
    /\ calls = 0
    /\ secrets_set = {}
    /\ settled = [id \in ServerIds |-> [config |-> 0, secrets |-> 0]]

CanStart(t) == threads[t].pc \in {"idle", "done"} /\ calls < MaxCalls

Begin(t, call) ==
    /\ CanStart(t)
    /\ threads' = [threads EXCEPT ![t] = call]
    /\ calls' = calls + 1

\* time passes
Tick ==
    /\ now < MaxTicks * TickSeconds
    /\ now' = now + TickSeconds
    /\ UNCHANGED <<servers, tool_cache, persisted, secrets, secret_version, threads, calls,
                   secrets_set, settled, config_version, regOthers>>

\* upsert_server(payload) is called
StartUpsert(t) ==
    /\ \E id \in ServerIds, fields \in SecretFieldChoices :
           Begin(t, [IdleThread EXCEPT
                        !.pc = "upsert", !.op = "upsert_server", !.server_id = id,
                        !.payload = [id |-> id, rev |-> 0, secret_fields |-> fields]])
    /\ UNCHANGED <<servers, tool_cache, persisted, secrets, secret_version, now,
                   secrets_set, settled, config_version, regOthers>>

\* upsert_server: the locked block; rev numbers the configs a server id is
\* given, in the order they are stored
UpsertLocked(t) ==
    LET call == threads[t]
        stored == [call.payload EXCEPT !.rev = config_version[call.server_id] + 1]
    IN  /\ call.pc = "upsert"
        /\ servers' = [servers EXCEPT ![call.server_id] = stored]
        /\ config_version' = [config_version EXCEPT ![call.server_id] = @ + 1]
        /\ tool_cache' = [tool_cache EXCEPT ![call.server_id] = NoEntry]
        /\ persisted' = servers'
        /\ threads' = [threads EXCEPT ![t] = [call EXCEPT !.payload = stored,
                                                          !.pc = "upsert_return"]]
        /\ UNCHANGED <<secrets, secret_version, now, calls, secrets_set, settled,
                       regOthers>>

\* upsert_server: return self.get_server(server_id) or payload
UpsertReturn(t) ==
    LET call == threads[t]
        found == GetServer(servers, secrets, call.server_id)
    IN  /\ call.pc = "upsert_return"
        /\ threads' = [threads EXCEPT ![t] =
               Ended(call, Returned(IF found = NoServer THEN call.payload ELSE found))]
        /\ settled' = [settled EXCEPT ![call.server_id].config = Max(@, call.payload.rev)]
        /\ UNCHANGED <<servers, tool_cache, persisted, secrets, secret_version, now, calls,
                       secrets_set, config_version, regOthers>>

\* delete_server(server_id) is called
StartDelete(t) ==
    /\ \E id \in ServerIds :
           Begin(t, [IdleThread EXCEPT !.pc = "delete", !.op = "delete_server", !.server_id = id])
    /\ UNCHANGED <<servers, tool_cache, persisted, secrets, secret_version, now,
                   secrets_set, settled, config_version, regOthers>>

\* delete_server: the locked block
DeleteLocked(t) ==
    LET call == threads[t]
        server == servers[call.server_id]
    IN  /\ call.pc = "delete"
        /\ servers' = [servers EXCEPT ![call.server_id] = NoServer]
        /\ persisted' = IF server # NoServer THEN servers' ELSE persisted
        /\ threads' = [threads EXCEPT ![t] =
               IF server = NoServer THEN Ended(call, Returned(FALSE))
               ELSE [call EXCEPT !.server = server, !.keys = SecretKeysOf(server),
                                 !.pc = IF SecretKeysOf(server) = <<>> THEN "delete_cache"
                                        ELSE "delete_secrets"]]
        /\ UNCHANGED <<tool_cache, secrets, secret_version, now, calls, secrets_set,
                       settled, config_version, regOthers>>

\* delete_secret(server_id, key) on the store: the pair is removed
delete_secret(server_id, key) ==
    /\ secrets' = secrets \ {<<server_id, key>>}
    /\ secret_version' =
           IF <<server_id, key>> \in secrets
           THEN [secret_version EXCEPT ![server_id] = @ + 1]
           ELSE secret_version

\* delete_server: delete_secret for the next declared key; the keyring may fail
DeleteDeclaredSecret(t) ==
    LET call == threads[t]
    IN  /\ call.pc = "delete_secrets"
        /\ \/ /\ delete_secret(call.server_id, Head(call.keys))
              /\ threads' = [threads EXCEPT ![t] =
                     [call EXCEPT !.keys = Tail(call.keys),
                                  !.pc = IF Tail(call.keys) = <<>> THEN "delete_cache"
                                         ELSE "delete_secrets"]]
           \/ /\ threads' = [threads EXCEPT ![t] = Ended(call, Raised("RuntimeError"))]
              /\ UNCHANGED <<secrets, secret_version>>
        /\ UNCHANGED <<servers, tool_cache, persisted, now, calls, secrets_set, settled,
                       config_version, regOthers>>

\* delete_server: self._tool_cache.pop(server_id, None); return bool(server)
DeleteCache(t) ==
    LET call == threads[t]
    IN  /\ call.pc = "delete_cache"
        /\ tool_cache' = [tool_cache EXCEPT ![call.server_id] = NoEntry]
        /\ threads' = [threads EXCEPT ![t] = Ended(call, Returned(TRUE))]
        /\ UNCHANGED <<servers, persisted, secrets, secret_version, now, calls, secrets_set,
                       settled, config_version, regOthers>>

\* update_secrets(server_id, secrets) is called
StartUpdateSecrets(t) ==
    /\ \E id \in ServerIds, items \in SecretPayloads :
           Begin(t, [IdleThread EXCEPT !.pc = "secrets_check", !.op = "update_secrets",
                                    !.server_id = id, !.secrets = items,
                                    !.keys = [i \in 1..Len(items) |-> items[i][1]]])
    /\ UNCHANGED <<servers, tool_cache, persisted, secrets, secret_version, now,
                   secrets_set, settled, config_version, regOthers>>

\* update_secrets: the locked check that the server is registered
SecretsCheck(t) ==
    LET call == threads[t]
    IN  /\ call.pc = "secrets_check"
        /\ threads' = [threads EXCEPT ![t] =
               IF servers[call.server_id] = NoServer THEN Ended(call, Raised("MCPConfigError"))
               ELSE [call EXCEPT !.pc = IF call.secrets = <<>> THEN "secrets_invalidate"
                                        ELSE "secrets_write"]]
        /\ UNCHANGED <<servers, tool_cache, persisted, secrets, secret_version, now, calls,
                       secrets_set, settled, config_version, regOthers>>

\* update_secrets: set_secret for the next item; the keyring may fail
SetSecret(t) ==
    LET call == threads[t]
        key == Head(call.secrets)[1]
        value == Head(call.secrets)[2]
        next == [call EXCEPT !.secrets = Tail(call.secrets),
                             !.pc = IF Tail(call.secrets) = <<>> THEN "secrets_invalidate"
                                    ELSE "secrets_write"]
    IN  /\ call.pc = "secrets_write"
        /\ \/ /\ key = ""
              /\ threads' = [threads EXCEPT ![t] = Ended(call, Raised("ValueError"))]
              /\ UNCHANGED <<secrets, secret_version, secrets_set>>
           \/ /\ key # "" /\ value = ""
              /\ delete_secret(call.server_id, key)
              /\ threads' = [threads EXCEPT ![t] =
                     [next EXCEPT !.written = secret_version'[call.server_id]]]
              /\ UNCHANGED secrets_set
           \/ /\ key # "" /\ value # ""
              /\ secrets' = secrets \cup {<<call.server_id, key>>}
              /\ secret_version' = [secret_version EXCEPT ![call.server_id] = @ + 1]
              /\ secrets_set' = secrets_set \cup {<<call.server_id, key>>}
              /\ threads' = [threads EXCEPT ![t] =
                     [next EXCEPT !.written = secret_version'[call.server_id]]]
           \/ /\ key # ""
              /\ threads' = [threads EXCEPT ![t] = Ended(call, Raised("RuntimeError"))]
              /\ UNCHANGED <<secrets, secret_version, secrets_set>>
        /\ UNCHANGED <<servers, tool_cache, persisted, now, calls, settled, config_version,
                       regOthers>>

\* update_secrets: the locked cache invalidation
SecretsInvalidate(t) ==
    LET call == threads[t]
    IN  /\ call.pc = "secrets_invalidate"
        /\ tool_cache' = [tool_cache EXCEPT ![call.server_id] = NoEntry]
        /\ threads' = [threads EXCEPT ![t].pc = "secrets_flags"]
        /\ UNCHANGED <<servers, persisted, secrets, secret_version, now, calls, secrets_set,
                       settled, config_version, regOthers>>

\* update_secrets: return list_secret_flags(server_id, list(secrets.keys()))
SecretsReturn(t) ==
    LET call == threads[t]
    IN  /\ call.pc = "secrets_flags"
        /\ threads' = [threads EXCEPT ![t] =
               Ended(call, Returned(ListSecretFlags(secrets, call.server_id, call.keys)))]
        /\ settled' = [settled EXCEPT ![call.server_id].secrets = Max(@, call.written)]
        /\ UNCHANGED <<servers, tool_cache, persisted, secrets, secret_version, now, calls,
                       secrets_set, config_version, regOthers>>

\* list_tools(server_id, force_refresh) is called
StartListTools(t) ==
    /\ \E id \in ServerIds, force \in BOOLEAN :
           Begin(t, [IdleThread EXCEPT !.pc = "tools_lookup", !.op = "list_tools",
                                    !.server_id = id, !.force_refresh = force,
                                    !.floor = settled[id]])
    /\ UNCHANGED <<servers, tool_cache, persisted, secrets, secret_version, now,
                   secrets_set, settled, config_version, regOthers>>

\* list_tools: server = self._servers.get(server_id), without the lock
ToolsLookup(t) ==
    LET call == threads[t]
        server == servers[call.server_id]
    IN  /\ call.pc = "tools_lookup"
        /\ threads' = [threads EXCEPT ![t] =
               IF server = NoServer THEN Ended(call, Raised("MCPConfigError"))
               ELSE [call EXCEPT !.server = server, !.pc = "tools_cache"]]
        /\ UNCHANGED <<servers, tool_cache, persisted, secrets, secret_version, now, calls,
                       secrets_set, settled, config_version, regOthers>>

\* _get_tools_for_server: the locked cache check
ToolsCacheCheck(t) ==
    LET call == threads[t]
        cache_entry == tool_cache[call.server_id]
    IN  /\ call.pc = "tools_cache"
        /\ threads' = [threads EXCEPT ![t] =
               IF CacheHit(cache_entry, call.force_refresh, now)
               THEN Ended(call, Returned(cache_entry.tools))
               ELSE [call EXCEPT !.pc = "tools_fetch"]]
        /\ UNCHANGED <<servers, tool_cache, persisted, secrets, secret_version, now, calls,
                       secrets_set, settled, config_version, regOthers>>

\* A variant of the fetch that evicts the server's cache entry when the
\* fetch raises.
ToolsFetch_Evicts(t) ==
    LET call == threads[t]
    IN  /\ call.pc = "tools_fetch"
        /\ \/ /\ threads' = [threads EXCEPT ![t] =
                     [call EXCEPT !.tools = FetchedTools(call.server, secret_version[call.server_id]),
                                  !.fetches = 1, !.pc = "tools_store"]]
              /\ UNCHANGED tool_cache
           \/ /\ threads' = [threads EXCEPT ![t] =
                     Ended([call EXCEPT !.fetches = 1], Raised("fetch failed"))]
              /\ tool_cache' = [tool_cache EXCEPT ![call.server_id] = NoEntry]
        /\ UNCHANGED <<servers, persisted, secrets, secret_version, now, calls,
                       secrets_set, settled, config_version, regOthers>>

\* _get_tools_for_server: the fetch, outside the lock; it may raise
ToolsFetch(t) ==
    LET call == threads[t]
    IN  /\ call.pc = "tools_fetch"
        /\ \/ threads' = [threads EXCEPT ![t] =
                  [call EXCEPT !.tools = FetchedTools(call.server, secret_version[call.server_id]),
                               !.fetches = 1, !.pc = "tools_store"]]
           \/ threads' = [threads EXCEPT ![t] =
                  Ended([call EXCEPT !.fetches = 1], Raised("fetch failed"))]
        /\ UNCHANGED <<servers, tool_cache, persisted, secrets, secret_version, now, calls,
                       secrets_set, settled, config_version, regOthers>>

\* _get_tools_for_server: the locked cache update, and the return
ToolsStore(t) ==
    LET call == threads[t]
    IN  /\ call.pc = "tools_store"
        /\ tool_cache' = [tool_cache EXCEPT ![call.server_id] =
               [timestamp |-> now, tools |-> call.tools]]
        /\ threads' = [threads EXCEPT ![t] = Ended(call, Returned(call.tools))]
        /\ UNCHANGED <<servers, persisted, secrets, secret_version, now, calls, secrets_set,
                       settled, config_version, regOthers>>

UpsertServer == \E t \in Threads : StartUpsert(t) \/ UpsertLocked(t) \/ UpsertReturn(t)

DeleteServer ==
    \E t \in Threads :
        StartDelete(t) \/ DeleteLocked(t) \/ DeleteDeclaredSecret(t) \/ DeleteCache(t)

UpdateSecrets ==
    \E t \in Threads :
        StartUpdateSecrets(t) \/ SecretsCheck(t) \/ SetSecret(t) \/ SecretsInvalidate(t)
            \/ SecretsReturn(t)

ListTools ==
    \E t \in Threads :
        StartListTools(t) \/ ToolsLookup(t) \/ ToolsCacheCheck(t) \/ ToolsFetch(t)
            \/ ToolsStore(t)

RegNext == Tick \/ UpsertServer \/ DeleteServer \/ UpdateSecrets \/ ListTools

-----------------------------------------------------------------------------
(* Properties of the registry *)

\* thread t has ended a call of op, and no other thread has made any call
EndedAlone(t, op) ==
    /\ threads[t].pc = "done"
    /\ threads[t].op = op
    /\ \A u \in Threads \ {t} : threads[u].pc = "idle"

\* C2: once upsert_server(id) or update_secrets(id) has returned, no later
\* list_tools(id) without force_refresh returns a tool list fetched under
\* the configuration or the secrets in effect before that change: a
\* list_tools call returns tools no older than the changes that had
\* returned when it was called.
C2_NoStaleToolsAfterChange ==
    \A t \in Threads :
        (/\ threads[t].pc = "done"
         /\ threads[t].op = "list_tools"
         /\ ~threads[t].force_refresh
         /\ threads[t].result.kind = "return")
            => /\ threads[t].result.value.config >= threads[t].floor.config
               /\ threads[t].result.value.secrets >= threads[t].floor.secrets

\* C9: after delete_server(id) has returned for a server created by upsert
\* and given secrets by update_secrets, the secret store holds no value for
\* any (id, key) that was set for that server.
C9_DeletePurgesEverySetSecret ==
    \A t \in Threads :
        (/\ EndedAlone(t, "delete_server")
         /\ threads[t].result = Returned(TRUE)
         /\ threads[t].server.rev >= 1)
            => \A key \in SecretKeys :
                   <<threads[t].server_id, key>> \in secrets_set
                       => <<threads[t].server_id, key>> \notin secrets

\* C10: every update_secrets call on a registered server ends with no
\* tool-cache entry for that server, on every exit path, including the one
\* where a secret-store write fails after earlier keys were written.
C10_UpdateSecretsAlwaysInvalidates ==
    \A t \in Threads :
        (/\ EndedAlone(t, "update_secrets")
         /\ threads[t].result # Raised("MCPConfigError"))
            => tool_cache[threads[t].server_id] = NoEntry

\* C33: for any interleaving of update_secrets(id, ...) and
\* delete_server(id) on the same server: once both calls have returned and
\* the server is no longer registered, the secret store holds no secret for
\* any declared secret key of that server.
C33_NoSecretLeftAfterDelete ==
    \A t, u \in Threads :
        (/\ calls = 2
         /\ threads[t].pc = "done" /\ threads[t].op = "update_secrets"
         /\ threads[u].pc = "done" /\ threads[u].op = "delete_server"
         /\ threads[t].server_id = threads[u].server_id
         /\ threads[t].result.kind = "return"
         /\ threads[u].result = Returned(TRUE)
         /\ servers[threads[u].server_id] = NoServer)
            => \A i \in DOMAIN SecretKeysOf(threads[u].server) :
                   <<threads[u].server_id, SecretKeysOf(threads[u].server)[i]>> \notin secrets

\* a list_tools call has begun and not ended
DiscoveryInFlight == \E t \in Threads : threads[t].op = "list_tools" /\ threads[t].pc # "done"

\* C34: in every reachable state with no discovery in flight, every server
\* id that has a tool-cache entry is a key of the server registry, under any
\* interleaving of list_tools, upsert_server, delete_server and
\* update_secrets.
C34_CachedServersAreRegistered ==
    ~DiscoveryInFlight =>
        \A id \in ServerIds : tool_cache[id] # NoEntry => servers[id] # NoServer

\* C36: when a discovery fetch raises, the tool cache is left exactly as it
\* was before the call, for forced and non-forced refreshes alike: the step
\* in which the fetch raises ends the call and changes nothing in the cache,
\* and the steps of the call before it (the cache check) change nothing
\* either, so no entry is added, replaced or removed.
C36_FailedFetchLeavesCache ==
    [][\A t \in Threads :
          LET call == threads[t]
              after == threads'[t]
          IN  /\ (call.op = "list_tools" /\ call.pc # "done"
                    /\ after.pc = "done" /\ after.result = Raised("fetch failed")) =>
                     /\ call.pc = "tools_fetch"
                     /\ tool_cache' = tool_cache
              /\ (call.pc = "tools_cache" /\ after.pc = "tools_fetch") =>
                     tool_cache' = tool_cache]_vars

\* a forced refresh failed while the cache held an entry for the server,
\* and the entry is still there
C36_Witness ==
    \E t \in Threads :
        /\ threads[t].pc = "done" /\ threads[t].op = "list_tools"
        /\ threads[t].force_refresh
        /\ threads[t].result = Raised("fetch failed")
        /\ tool_cache[threads[t].server_id] # NoEntry

\* the cache entry of the server is there and younger than the TTL
FreshEntry(server_id) ==
    /\ tool_cache[server_id] # NoEntry
    /\ now - tool_cache[server_id].timestamp < MCP_TOOL_CACHE_TTL

\* C20: the cache check of _get_tools_for_server returns the cached list,
\* with no fetch, exactly when force_refresh is false and the server has a
\* cache entry younger than the TTL; otherwise it goes on to the fetch, which
\* is a step of its own that leaves the cache alone, and the fetched list is
\* then stored with the current time as the server's cache entry and returned.
C20_CacheHitExactlyWhenFresh ==
    [][\A t \in Threads :
          LET call == threads[t]
              after == threads'[t]
          IN  /\ (call.pc = "tools_cache" /\ after # call) =>
                     /\ tool_cache' = tool_cache
                     /\ IF ~call.force_refresh /\ FreshEntry(call.server_id)
                        THEN after.pc = "done" /\ after.fetches = 0
                             /\ after.result = Returned(tool_cache[call.server_id].tools)
                        ELSE after.pc = "tools_fetch"
              /\ (call.pc = "tools_fetch" /\ after # call) =>
                     /\ tool_cache' = tool_cache
                     /\ after.fetches = 1
                     /\ after.pc = "tools_store" \/ after.result.kind = "raise"
              /\ (call.pc = "tools_store" /\ after # call) =>
                     /\ tool_cache' = [tool_cache EXCEPT ![call.server_id] =
                                          [timestamp |-> now, tools |-> call.tools]]
                     /\ after.result = Returned(call.tools)]_vars

\* one call was served from the cache without a fetch, and another call, not
\* forced, fetched and stored its list after time had passed
C20_Witness ==
    \E t, u \in Threads :
        /\ threads[t].pc = "done" /\ threads[t].op = "list_tools"
        /\ threads[t].result.kind = "return"
        /\ threads[t].fetches = 0
        /\ threads[u].pc = "done" /\ threads[u].op = "list_tools"
        /\ ~threads[u].force_refresh
        /\ threads[u].fetches = 1
        /\ threads[u].result.kind = "return"
        /\ tool_cache[threads[u].server_id] # NoEntry
        /\ tool_cache[threads[u].server_id].timestamp > 0

-----------------------------------------------------------------------------
(* The command registry (CommandManager) and the dispatcher (execute) *)

\* An action dict is its 'type' ("absent" when the key is missing) and the set
\* of its other keys; a parameter definition is its type and its options
\* (None, or a list of values).

\* str.strip()
StrStrip(s) ==
    LET inner == {i \in 1..Len(s) : s[i] \notin Whitespace}
    IN  IF inner = {} THEN <<>>
        ELSE SubSeq(s, CHOOSE i \in inner : \A j \in inner : i <= j,
                       CHOOSE i \in inner : \A j \in inner : j <= i)

IsList(options) == options.t = "list"

\* the type _normalize_option_values gives a raw option, "invalid" when it
\* raises for it
OptionType(raw) ==
    CASE raw.t = "bool" -> "invalid"
      [] raw.t = "int" -> "integer"
      [] raw.t = "str" -> IF StrStrip(raw.s) = <<>> THEN "invalid" ELSE "string"
      [] OTHER -> "invalid"

\* _normalize_option_values: whether it returns, and the list it returns
NormalizeOptionValues(options) ==
    IF ~IsList(options) THEN [ok |-> FALSE, value |-> options]
    ELSE IF options.items = <<>> THEN [ok |-> FALSE, value |-> options]
    ELSE LET raw == options.items
         IN  [ok |-> \A i \in 1..Len(raw) :
                         /\ OptionType(raw[i]) # "invalid"
                         /\ OptionType(raw[i]) = OptionType(raw[1]),
              value |-> ListV([i \in 1..Len(raw) |->
                                  IF raw[i].t = "str" THEN StrV(StrStrip(raw[i].s))
                                  ELSE raw[i]])]

\* _validate_parameters: whether it returns, and the parameter list it leaves
\* behind: the options of the parameters before the first rejected one are
\* normalized in place
ValidateParameters(parameters) ==
    LET Rejected(i) == /\ parameters[i].type = "options"
                       /\ ~NormalizeOptionValues(parameters[i].options).ok
        bad == {i \in 1..Len(parameters) : Rejected(i)}
        first == IF bad = {} THEN Len(parameters) + 1
                 ELSE CHOOSE i \in bad : \A j \in bad : i <= j
    IN  [ok |-> bad = {},
         parameters |-> [i \in 1..Len(parameters) |->
             IF i < first /\ parameters[i].type = "options"
             THEN [parameters[i] EXCEPT
                      !.options = NormalizeOptionValues(parameters[i].options).value]
             ELSE parameters[i]]]

RequiredActionKeys(type) ==
    CASE type = "script" -> {"script_path"}
      [] type = "http" -> {"url"}
      [] type = "mcp" -> {"server_id", "tool"}
      [] OTHER -> {}

\* the action checks of _validate_command
ValidAction(action) ==
    /\ action.type \in {"script", "http", "mcp"}
    /\ RequiredActionKeys(action.type) \subseteq action.keys

\* _validate_command: whether it returns, and the command it leaves behind
ValidateCommand(command) ==
    IF ~ValidAction(command.action) THEN [ok |-> FALSE, command |-> command]
    ELSE [ok |-> ValidateParameters(command.parameters).ok,
          command |-> [command EXCEPT
                          !.parameters = ValidateParameters(command.parameters).parameters]]

\* an ExecutionResult, and an exception leaving execute
ExecutionResult(success, error) == [kind |-> "result", success |-> success, error |-> error]
ExecuteRaised(error) == [kind |-> "raise", error |-> error]

\* execute is not running
NoRun ==
    [pc |-> "idle", command_id |-> "", confirm_mode |-> FALSE, command |-> NoCommand,
     declined |-> FALSE, spawned |-> FALSE, sent |-> FALSE, session |-> FALSE,
     outcome |-> NoOutcome]

NoCrud == [op |-> "none", command_id |-> "", outcome |-> NoOutcome]

-----------------------------------------------------------------------------
(* Inputs of the command registry and of execute *)

MaxCrudCalls == 2
MaxRuns == 1

CommandIds == {"c"}

ActionChoices ==
    {[type |-> "script", keys |-> {"script_path"}],
     [type |-> "http", keys |-> {"url"}],
     [type |-> "mcp", keys |-> {"server_id", "tool"}],
     [type |-> "mcp", keys |-> {"server_id"}],
     [type |-> "bogus", keys |-> {}],
     [type |-> "absent", keys |-> {}]}

OptionLists ==
    {NoneV, ListV(<<>>), ListV(<<StrV(<<" ", "a">>)>>), ListV(<<IntV(1), IntV(2)>>),
     ListV(<<IntV(1), StrV(<<"a">>)>>), ListV(<<BoolV(TRUE)>>)}

ParameterChoices ==
    {<<>>, <<[type |-> "string", options |-> NoneV]>>}
        \cup {<<[type |-> "options", options |-> o]>> : o \in OptionLists}

CommandChoices ==
    {[id |-> id, enabled |-> e, action |-> a, parameters |-> ps] :
        id \in CommandIds, e \in BOOLEAN, a \in ActionChoices, ps \in ParameterChoices}

\* the updates dict of update_command: one key, and its new value in the field
\* of that name
Updates(key, action, parameters, enabled) ==
    [key |-> key, action |-> action, parameters |-> parameters, enabled |-> enabled]

UpdateChoices ==
    {Updates("action", a, <<>>, FALSE) : a \in ActionChoices}
        \cup {Updates("parameters", [type |-> "absent", keys |-> {}], ps, FALSE) :
                  ps \in ParameterChoices}
        \cup {Updates("enabled", [type |-> "absent", keys |-> {}], <<>>, e) : e \in BOOLEAN}

\* what the MCP server may put into the message of an McpError
ErrorMessages == {"", "tool failed"}

-----------------------------------------------------------------------------
(* Specification of the command registry and of execute *)

CmdInit ==
    /\ cmd_registry = [id \in CommandIds |-> NoCommand]
    /\ cmd_file = cmd_registry
    /\ crud = NoCrud
    /\ crud_calls = 0
    /\ run = NoRun
    /\ runs = 0

CmdIdle ==
    /\ cmd_registry = [id \in CommandIds |-> NoCommand]
    /\ cmd_file = cmd_registry
    /\ crud = NoCrud
    /\ crud_calls = 0
    /\ run = NoRun
    /\ runs = 0

\* a CRUD call is made, between two executions
CrudCall(op, id, outcome) ==
    /\ run.pc \in {"idle", "done"}
    /\ crud_calls < MaxCrudCalls
    /\ crud_calls' = crud_calls + 1
    /\ crud' = [op |-> op, command_id |-> id, outcome |-> outcome]

\* add_command(command_data)
AddCommand ==
    \E data \in CommandChoices :
        LET checked == ValidateCommand(data)
            accepted == cmd_registry[data.id] = NoCommand /\ checked.ok
        IN  /\ CrudCall("add_command", data.id,
                        IF accepted THEN Returned(checked.command) ELSE Raised("ValueError"))
            /\ cmd_registry' = IF accepted THEN [cmd_registry EXCEPT ![data.id] = checked.command] ELSE cmd_registry
            /\ cmd_file' = IF accepted THEN cmd_registry' ELSE cmd_file
            /\ UNCHANGED <<run, runs, cmdOthers>>

\* the command with the updates merged in: command.update(updates)
Merged(command, updates) ==
    CASE updates.key = "action" -> [command EXCEPT !.action = updates.action]
      [] updates.key = "parameters" -> [command EXCEPT !.parameters = updates.parameters]
      [] OTHER -> [command EXCEPT !.enabled = updates.enabled]

\* update_command(command_id, updates): the registered dict is updated in place,
\* then validated, then saved
UpdateCommand ==
    \E id \in CommandIds, updates \in UpdateChoices :
        LET found == cmd_registry[id] # NoCommand
            checked == ValidateCommand(Merged(cmd_registry[id], updates))
        IN  /\ CrudCall("update_command", id,
                        IF ~found THEN Returned(NoCommand)
                        ELSE IF checked.ok THEN Returned(checked.command)
                        ELSE Raised("ValueError"))
            /\ cmd_registry' = IF found THEN [cmd_registry EXCEPT ![id] = checked.command] ELSE cmd_registry
            /\ cmd_file' = IF found /\ checked.ok THEN cmd_registry' ELSE cmd_file
            /\ UNCHANGED <<run, runs, cmdOthers>>

\* toggle_command(command_id)
ToggleCommand ==
    \E id \in CommandIds :
        LET found == cmd_registry[id] # NoCommand
        IN  /\ CrudCall("toggle_command", id,
                        IF found THEN Returned(BoolV(~cmd_registry[id].enabled))
                        ELSE Returned(NoneV))
            /\ cmd_registry' = IF found THEN [cmd_registry EXCEPT ![id].enabled = ~@] ELSE cmd_registry
            /\ cmd_file' = IF found THEN cmd_registry' ELSE cmd_file
            /\ UNCHANGED <<run, runs, cmdOthers>>

\* delete_command(command_id)
DeleteCommand ==
    \E id \in CommandIds :
        LET found == cmd_registry[id] # NoCommand
        IN  /\ CrudCall("delete_command", id, Returned(BoolV(found)))
            /\ cmd_registry' = [cmd_registry EXCEPT ![id] = NoCommand]
            /\ cmd_file' = IF found THEN cmd_registry' ELSE cmd_file
            /\ UNCHANGED <<run, runs, cmdOthers>>

RunEnds(outcome) == run' = [run EXCEPT !.pc = "done", !.outcome = outcome]

\* A variant of the enabled check that lets every command through.
Disabled_Never(command) == FALSE

\* if not command.get('enabled', True)
Disabled(command) == ~command.enabled

\* execute(command_id, parameters, confirm_mode) up to the dispatch on the
\* action type
Execute ==
    \E id \in CommandIds, confirm \in BOOLEAN :
        LET command == cmd_registry[id]
            started == [NoRun EXCEPT !.command_id = id, !.confirm_mode = confirm,
                                     !.command = command]
            type == command.action.type
        IN  /\ run.pc \in {"idle", "done"}
            /\ runs < MaxRuns
            /\ runs' = runs + 1
            /\ run' =
                 IF command = NoCommand
                 THEN [started EXCEPT !.pc = "done",
                          !.outcome = ExecutionResult(FALSE, "Command not found: <id>")]
                 ELSE IF Disabled(command)
                 THEN [started EXCEPT !.pc = "done",
                          !.outcome = ExecutionResult(FALSE, "Command is disabled")]
                 ELSE IF type = "absent"
                 THEN [started EXCEPT !.pc = "done", !.outcome = ExecuteRaised("KeyError")]
                 ELSE IF type \in {"script", "http", "mcp"}
                 THEN [started EXCEPT !.pc = type]
                 ELSE [started EXCEPT !.pc = "done",
                          !.outcome = ExecutionResult(FALSE, "Unknown action type: <type>")]
            /\ UNCHANGED <<cmd_registry, cmd_file, crud, crud_calls, cmdOthers>>

AfterPrepare == IF run.confirm_mode THEN "confirm" ELSE "act"

\* execute_script up to the confirmation: prepare_execution_environment, whose
\* exceptions are caught
PrepareScript ==
    /\ run.pc = "script"
    /\ \/ /\ "script_path" \in run.command.action.keys
          /\ run' = [run EXCEPT !.pc = AfterPrepare]
       \/ RunEnds(ExecutionResult(FALSE, "Script execution error: <exception>"))
    /\ UNCHANGED <<cmd_registry, cmd_file, crud, crud_calls, runs, cmdOthers>>

\* execute_http up to the confirmation: prepare_http_request, whose exceptions
\* are caught
PrepareHttp ==
    /\ run.pc = "http"
    /\ \/ /\ "url" \in run.command.action.keys
          /\ run' = [run EXCEPT !.pc = AfterPrepare]
       \/ RunEnds(ExecutionResult(FALSE, "HTTP request error: <exception>"))
    /\ UNCHANGED <<cmd_registry, cmd_file, crud, crud_calls, runs, cmdOthers>>

\* execute_mcp up to the confirmation: action['server_id'], action['tool'] and
\* the argument dict, outside every try block
PrepareMcp ==
    /\ run.pc = "mcp"
    /\ IF {"server_id", "tool"} \subseteq run.command.action.keys
       THEN run' = [run EXCEPT !.pc = AfterPrepare]
       ELSE RunEnds(ExecuteRaised("KeyError"))
    /\ UNCHANGED <<cmd_registry, cmd_file, crud, crud_calls, runs, cmdOthers>>

\* A variant of the confirmation gate that goes on after the user declined.
Confirm_GoesOn ==
    /\ run.pc = "confirm"
    /\ \E answer \in BOOLEAN : run' = [run EXCEPT !.pc = "act", !.declined = ~answer]
    /\ UNCHANGED <<cmd_registry, cmd_file, crud, crud_calls, runs, cmdOthers>>

\* if confirm_mode and not request_confirmation(): return the cancelled result.
\* input() raises EOFError on a closed stdin: execute_script and execute_http
\* ask inside their try block, execute_mcp asks outside every try block
Confirm ==
    /\ run.pc = "confirm"
    /\ \/ run' = [run EXCEPT !.pc = "act"]
       \/ run' = [run EXCEPT !.pc = "done", !.declined = TRUE,
                             !.outcome = ExecutionResult(FALSE, "Execution cancelled by user")]
       \/ RunEnds(CASE run.command.action.type = "script" ->
                           ExecutionResult(FALSE, "Script execution error: <exception>")
                     [] run.command.action.type = "http" ->
                           ExecutionResult(FALSE, "HTTP request error: <exception>")
                     [] OTHER -> ExecuteRaised("EOFError"))
    /\ UNCHANGED <<cmd_registry, cmd_file, crud, crud_calls, runs, cmdOthers>>

\* execute_in_background / execute_in_foreground: the process is started, or
\* starting it fails
LaunchScript ==
    /\ run.pc = "act" /\ run.command.action.type = "script"
    /\ \/ run' = [run EXCEPT !.pc = "done", !.spawned = TRUE,
                             !.outcome = ExecutionResult(TRUE, "")]
       \/ run' = [run EXCEPT !.pc = "done",
                             !.outcome = ExecutionResult(FALSE, "Background execution error: <exception>")]
    /\ UNCHANGED <<cmd_registry, cmd_file, crud, crud_calls, runs, cmdOthers>>

\* make_http_request and the response check of execute_http
SendHttp ==
    /\ run.pc = "act" /\ run.command.action.type = "http"
    /\ \E error \in {"", "HTTP error: <status>", "HTTP request timed out",
                     "HTTP request error: <exception>"} :
           run' = [run EXCEPT !.pc = "done", !.sent = TRUE,
                              !.outcome = ExecutionResult(error = "", error)]
    /\ UNCHANGED <<cmd_registry, cmd_file, crud, crud_calls, runs, cmdOthers>>

\* call_tool and the result handling of execute_mcp: a config error and any
\* other exception carry a message, an MCPExecutionError carries the message
\* the server sent
CallMcpTool ==
    /\ run.pc = "act" /\ run.command.action.type = "mcp"
    /\ \/ \E error \in {"", "MCP tool returned an error"} :
              run' = [run EXCEPT !.pc = "done", !.session = TRUE,
                                 !.outcome = ExecutionResult(error = "", error)]
       \/ \E message \in ErrorMessages :
              run' = [run EXCEPT !.pc = "done", !.session = TRUE,
                                 !.outcome = ExecutionResult(FALSE, message)]
       \/ \E error \in {"Server not found: <id>", "MCP execution error: <exception>"} :
              run' = [run EXCEPT !.pc = "done",
                                 !.outcome = ExecutionResult(FALSE, error)]
    /\ UNCHANGED <<cmd_registry, cmd_file, crud, crud_calls, runs, cmdOthers>>

-----------------------------------------------------------------------------
(* Properties of the command registry and of execute *)

\* C11: whatever the registry state reached through the CRUD operations,
\* execute returns an ExecutionResult and never raises; an unknown or a
\* disabled command gives a failure, and every failure carries a non-empty
\* error.
C11_ExecuteAlwaysReturnsResult ==
    run.pc = "done" =>
        /\ run.outcome.kind = "result"
        /\ ~run.outcome.success => run.outcome.error # ""
        /\ run.command = NoCommand => ~run.outcome.success
        /\ (run.command # NoCommand /\ ~run.command.enabled) => ~run.outcome.success

\* C12: once the user has declined the confirmation, the invocation has ended
\* with the cancellation failure and has spawned no process, sent no HTTP
\* request and opened no MCP session.
C12_DeclineStopsExecution ==
    run.declined =>
        /\ run.pc = "done"
        /\ run.outcome = ExecutionResult(FALSE, "Execution cancelled by user")
        /\ ~run.spawned /\ ~run.sent /\ ~run.session

C12_Witness ==
    /\ run.declined
    /\ run.confirm_mode
    /\ run.command.action.type = "mcp"
    /\ run.pc = "done"

OptionsWellFormed(options) ==
    /\ IsList(options)
    /\ options.items # <<>>
    /\ \/ \A i \in 1..Len(options.items) : options.items[i].t = "str"
       \/ \A i \in 1..Len(options.items) : options.items[i].t = "int"

\* C14: after any sequence of add_command, update_command, toggle_command and
\* delete_command calls, rejected ones included, every parameter of type
\* options held in the registry has a non-empty options list of strings only
\* or of non-boolean integers only.
C14_StoredOptionsWellFormed ==
    \A id \in CommandIds :
        cmd_registry[id] # NoCommand =>
            \A i \in 1..Len(cmd_registry[id].parameters) :
                cmd_registry[id].parameters[i].type = "options" =>
                    OptionsWellFormed(cmd_registry[id].parameters[i].options)

\* C29: a rejected command mutation changes nothing: when update_command
\* raises because the merged command fails validation the command held in
\* the registry is what it was before the call, when add_command raises
\* nothing is added, and the commands file keeps the old commands.
C29_RejectedMutationChangesNothing ==
    [][(crud_calls' # crud_calls /\ crud'.outcome = Raised("ValueError")) =>
           (cmd_registry' = cmd_registry /\ cmd_file' = cmd_file)]_vars

CmdNext ==
    \/ AddCommand \/ UpdateCommand \/ ToggleCommand \/ DeleteCommand
    \/ Execute \/ PrepareScript \/ PrepareHttp \/ PrepareMcp \/ Confirm
    \/ LaunchScript \/ SendHttp \/ CallMcpTool

-----------------------------------------------------------------------------
(* MCP sessions: list_tools and call_tool against the server registry *)

\* A server config is its enabled flag, its transport field, the set of its
\* non-null sub-configs (each with its url or command), and whether it has an
\* oauth_connection_id.
ServerConfig(enabled, transport, subs, oauth) ==
    [enabled |-> enabled, transport |-> transport, subs |-> subs, oauth |-> oauth]

UpperLetters ==
    <<"A", "B", "C", "D", "E", "F", "G", "H", "I", "J", "K", "L", "M",
      "N", "O", "P", "Q", "R", "S", "T", "U", "V", "W", "X", "Y", "Z">>
LowerLetters ==
    <<"a", "b", "c", "d", "e", "f", "g", "h", "i", "j", "k", "l", "m",
      "n", "o", "p", "q", "r", "s", "t", "u", "v", "w", "x", "y", "z">>

\* str.lower()
StrLower(s) ==
    [i \in 1..Len(s) |->
        IF s[i] \in Upper
        THEN LowerLetters[CHOOSE k \in 1..26 : UpperLetters[k] = s[i]]
        ELSE s[i]]

Active == <<"a", "c", "t", "i", "v", "e">>

\* _get_composio_mcp_url: str(connection.get("status", "")).lower() == "active"
BrokerActive(status) ==
    StrLower(status) = Active

\* _map_transport of the catalog configurator; "unsupported" when it raises
MapTransport(value) ==
    CASE StrLower(value) \in {<<"h", "t", "t", "p">>,
                              <<"s", "t", "r", "e", "a", "m", "a", "b", "l", "e", "-", "h", "t", "t", "p">>}
             -> "http"
      [] StrLower(value) = <<"s", "s", "e">> -> "sse"
      [] StrLower(value) = <<"s", "t", "d", "i", "o">> -> "stdio"
      [] OTHER -> "unsupported"

\* _build_server_payload: the sub-config of the transport is built, the two
\* others are None
BuildServerPayload(transport, enabled) ==
    ServerConfig(enabled, transport, {transport}, FALSE)

NoVia == [none |-> TRUE]

\* the transport a session is opened over
Via(transport, endpoint, auth, read_secrets) ==
    [transport |-> transport, endpoint |-> endpoint, auth |-> auth,
     read_secrets |-> read_secrets]

\* a thread that is in no list_tools or call_tool invocation
IdleOp ==
    [pc |-> "idle", op |-> "none", server_id |-> "", force_refresh |-> FALSE,
     server |-> NoServer, off |-> FALSE, sid |-> 0, log |-> <<>>, via |-> NoVia,
     asked |-> FALSE, status |-> <<>>, tools |-> NoTools, called |-> FALSE,
     pending |-> NoOutcome, result |-> NoOutcome]

\* the invocation returns or raises
Done(call, outcome) == [call EXCEPT !.pc = "done", !.result = outcome]

\* what the broker answers for a connection: whether the API key is
\* configured, whether the lookup fails, the status, and whether an MCP
\* endpoint comes with it (composio_client.get_connection resolves one for
\* active connections only)
BrokerAnswer(key, failed, status, endpoint) ==
    [key |-> key, failed |-> failed, status |-> status, endpoint |-> endpoint]

-----------------------------------------------------------------------------
(* Inputs of the session operations *)

MaxChanges == 1
MaxOps == 2

\* the JSON bodies posted to /api/mcp/servers: with and without a transport,
\* with the sub-config of the transport, with none, and with another one
WebPayloads ==
    {ServerConfig(e, "http", {"http"}, o) : e \in BOOLEAN, o \in BOOLEAN}
        \cup {ServerConfig(e, "stdio", {"http"}, TRUE) : e \in BOOLEAN}
        \cup {ServerConfig(TRUE, "http", {}, FALSE), ServerConfig(TRUE, "absent", {}, FALSE)}

CatalogTransports ==
    {<<"s", "s", "e">>, <<"S", "T", "D", "I", "O">>, <<"w", "s">>}

Statuses ==
    {Active, <<"A", "C", "T", "I", "V", "E">>, <<"p", "e", "n", "d", "i", "n", "g">>, <<>>}

\* no API key, a failed lookup, or a connection with a status; an endpoint
\* comes with active connections only, and not with all of them
BrokerAnswers ==
    {BrokerAnswer(FALSE, FALSE, <<>>, FALSE), BrokerAnswer(TRUE, TRUE, <<>>, FALSE)}
        \cup {BrokerAnswer(TRUE, FALSE, st, FALSE) : st \in Statuses}
        \cup {BrokerAnswer(TRUE, FALSE, st, TRUE) : st \in {u \in Statuses : StrLower(u) = Active}}

\* the registry file at start: no server, or one written by an earlier run
LoadedConfigs ==
    {NoServer, ServerConfig(FALSE, "http", {"http"}, FALSE)}
        \cup {ServerConfig(TRUE, "http", {"http"}, o) : o \in BOOLEAN}

\* the configs upsert_server stores for the payloads above
StoredConfigs ==
    LoadedConfigs
        \cup {payload \in WebPayloads : payload.transport # "absent"}
        \cup {BuildServerPayload(MapTransport(transport), e) :
                  transport \in {c \in CatalogTransports : MapTransport(c) # "unsupported"},
                  e \in BOOLEAN}

-----------------------------------------------------------------------------
(* Specification of the session operations *)

SessInit ==
    /\ mcp_servers \in [ServerIds -> LoadedConfigs]
    /\ mcp_cache = [id \in ServerIds |-> NoEntry]
    /\ ops = [t \in Threads |-> IdleOp]
    /\ session_count = 0
    /\ changes = 0
    /\ op_calls = 0

\* the session operations on a registry that an earlier sequence of upserts
\* has left, with no change of the registry meanwhile
SessionsInit ==
    /\ mcp_servers \in [ServerIds -> StoredConfigs]
    /\ mcp_cache = [id \in ServerIds |-> NoEntry]
    /\ ops = [t \in Threads |-> IdleOp]
    /\ session_count = 0
    /\ changes = 0
    /\ op_calls = 0

SessIdle ==
    /\ mcp_servers = [id \in ServerIds |-> NoServer]
    /\ mcp_cache = [id \in ServerIds |-> NoEntry]
    /\ ops = [t \in Threads |-> IdleOp]
    /\ session_count = 0
    /\ changes = 0
    /\ op_calls = 0

\* the locked block of upsert_server: the payload replaces the config and the
\* cache entry goes; the invocations in flight on the server learn whether it
\* has been enabled meanwhile
Commit(id, config) ==
    /\ mcp_servers' = [mcp_servers EXCEPT ![id] = config]
    /\ mcp_cache' = [mcp_cache EXCEPT ![id] = NoEntry]
    /\ ops' = [t \in Threads |->
                  IF ops[t].server_id = id /\ ops[t].pc \notin {"idle", "done"}
                  THEN [ops[t] EXCEPT !.off = @ /\ ~config.enabled]
                  ELSE ops[t]]

\* POST /api/mcp/servers: upsert_server(request.json)
UpsertPayload ==
    \E id \in ServerIds, payload \in WebPayloads :
        /\ changes < MaxChanges
        /\ changes' = changes + 1
        /\ IF payload.transport = "absent"
           THEN UNCHANGED <<mcp_servers, mcp_cache, ops>>
           ELSE Commit(id, payload)
        /\ UNCHANGED <<session_count, op_calls, sessOthers>>

\* install_from_catalog: _build_server_payload, then upsert_server
InstallFromCatalog ==
    \E id \in ServerIds, transport \in CatalogTransports, enabled \in BOOLEAN :
        /\ changes < MaxChanges
        /\ changes' = changes + 1
        /\ IF MapTransport(transport) = "unsupported"
           THEN UNCHANGED <<mcp_servers, mcp_cache, ops>>
           ELSE Commit(id, BuildServerPayload(MapTransport(transport), enabled))
        /\ UNCHANGED <<session_count, op_calls, sessOthers>>

\* delete_server(server_id)
RemoveServer ==
    \E id \in ServerIds :
        /\ changes < MaxChanges
        /\ changes' = changes + 1
        /\ mcp_servers' = [mcp_servers EXCEPT ![id] = NoServer]
        /\ mcp_cache' = [mcp_cache EXCEPT ![id] = NoEntry]
        /\ UNCHANGED <<ops, session_count, op_calls, sessOthers>>

\* list_tools(server_id, force_refresh) or call_tool(server_id, ...) is called
BeginOperation(t) ==
    /\ ops[t].pc \in {"idle", "done"}
    /\ ops[t].pc = "idle" => (t = "t1" \/ ops["t1"].pc # "idle")
    /\ op_calls < MaxOps
    /\ op_calls' = op_calls + 1
    /\ \E id \in ServerIds, op \in {"list_tools", "call_tool"}, force \in BOOLEAN :
           /\ op = "call_tool" => ~force
           /\ ops' = [ops EXCEPT ![t] =
                  [IdleOp EXCEPT !.pc = "lookup", !.op = op, !.server_id = id,
                                 !.force_refresh = force,
                                 !.off = \/ mcp_servers[id] = NoServer
                                         \/ ~mcp_servers[id].enabled]]
    /\ UNCHANGED <<mcp_servers, mcp_cache, session_count, changes, sessOthers>>

\* server = self._servers.get(server_id)
ResolveServer(t) ==
    LET call == ops[t]
        server == mcp_servers[call.server_id]
    IN  /\ call.pc = "lookup"
        /\ ops' = [ops EXCEPT ![t] =
               IF server = NoServer THEN Done(call, Raised("MCPConfigError"))
               ELSE [call EXCEPT !.server = server,
                                 !.pc = IF call.op = "list_tools" THEN "cache" ELSE "open"]]
        /\ UNCHANGED <<mcp_servers, mcp_cache, session_count, changes, op_calls, sessOthers>>

\* _get_tools_for_server: the locked cache check; whether the entry is still
\* younger than the TTL is open here
CheckCache(t) ==
    LET call == ops[t]
        entry == mcp_cache[call.server_id]
    IN  /\ call.pc = "cache"
        /\ \E fresh \in BOOLEAN :
               ops' = [ops EXCEPT ![t] =
                   IF entry # NoEntry /\ ~call.force_refresh /\ fresh
                   THEN Done(call, Returned(entry.tools))
                   ELSE [call EXCEPT !.pc = "open"]]
        /\ UNCHANGED <<mcp_servers, mcp_cache, session_count, changes, op_calls, sessOthers>>

\* the transport the Composio branch of _open_session opens, or the error it
\* raises
ComposioTransport(answer) ==
    IF ~answer.key \/ answer.failed \/ ~BrokerActive(answer.status)
    THEN Raised("MCPConfigError")
    ELSE IF ~answer.endpoint THEN Raised("MCPConfigError")
    ELSE Returned(Via("http", "broker", "x-api-key", FALSE))

\* the transport the standard branch of _open_session opens, or the error it
\* raises
ConfiguredTransport(server) ==
    IF server.transport \in {"sse", "http", "stdio"} /\ server.transport \in server.subs
    THEN Returned(Via(server.transport, "config", "secrets", TRUE))
    ELSE Raised("MCPConfigError")

\* what the broker is asked and answers while the session is opened, and the
\* transport to open or the error raised before any is opened
Opening(asked, status, chosen) == [asked |-> asked, status |-> status, chosen |-> chosen]

\* A variant of _open_session without the oauth_connection_id branch.
Openings_NoOAuthBranch(server) ==
    IF ~server.enabled THEN {Opening(FALSE, <<>>, Raised("MCPConfigError"))}
    ELSE {Opening(FALSE, <<>>, ConfiguredTransport(server))}

Openings(server) ==
    IF ~server.enabled THEN {Opening(FALSE, <<>>, Raised("MCPConfigError"))}
    ELSE IF server.oauth
    THEN {Opening(answer.key, answer.status, ComposioTransport(answer)) :
             answer \in BrokerAnswers}
    ELSE {Opening(FALSE, <<>>, ConfiguredTransport(server))}

\* _open_session up to the opened transport: the enabled check, the branch on
\* oauth_connection_id, and the transport client, which may fail to connect
OpenSession(t) ==
    LET call == ops[t]
    IN  /\ call.pc = "open"
        /\ \E opening \in Openings(call.server) :
               LET seen == [call EXCEPT !.asked = opening.asked, !.status = opening.status]
               IN  \/ /\ opening.chosen.kind = "raise"
                      /\ ops' = [ops EXCEPT ![t] = Done(seen, opening.chosen)]
                      /\ UNCHANGED session_count
                   \/ /\ opening.chosen.kind = "return"
                      /\ ops' = [ops EXCEPT ![t] = Done(seen, Raised("Exception"))]
                      /\ UNCHANGED session_count
                   \/ /\ opening.chosen.kind = "return"
                      /\ ops' = [ops EXCEPT ![t] =
                             [seen EXCEPT !.via = opening.chosen.value,
                                          !.sid = session_count + 1,
                                          !.log = Append(@, "open"), !.pc = "initialize"]]
                      /\ session_count' = session_count + 1
        /\ UNCHANGED <<mcp_servers, mcp_cache, changes, op_calls, sessOthers>>

\* A variant of the initialization whose failure leaves without closing.
InitializeSession_Leaks(t) ==
    LET call == ops[t]
    IN  /\ call.pc = "initialize"
        /\ \/ ops' = [ops EXCEPT ![t] = [call EXCEPT !.log = Append(@, "initialize"),
                                                     !.pc = "operate"]]
           \/ ops' = [ops EXCEPT ![t] =
                  Done([call EXCEPT !.log = Append(@, "initialize")], Raised("Exception"))]
        /\ UNCHANGED <<mcp_servers, mcp_cache, session_count, changes, op_calls, sessOthers>>

\* await session.initialize(), inside the two async with blocks
InitializeSession(t) ==
    LET call == ops[t]
    IN  /\ call.pc = "initialize"
        /\ \/ ops' = [ops EXCEPT ![t] = [call EXCEPT !.log = Append(@, "initialize"),
                                                     !.pc = "operate"]]
           \/ ops' = [ops EXCEPT ![t] = [call EXCEPT !.log = Append(@, "initialize"),
                                                     !.pending = Raised("Exception"),
                                                     !.pc = "close"]]
        /\ UNCHANGED <<mcp_servers, mcp_cache, session_count, changes, op_calls, sessOthers>>

\* session.list_tools() or session.call_tool(...) on the yielded session
Operate(t) ==
    LET call == ops[t]
        used == [call EXCEPT !.log = Append(@, "operate"), !.pc = "close",
                             !.called = call.op = "call_tool"]
    IN  /\ call.pc = "operate"
        /\ \/ /\ call.op = "list_tools"
              /\ ops' = [ops EXCEPT ![t] =
                     [used EXCEPT !.tools = [of |-> call.server],
                                  !.pending = Returned([of |-> call.server])]]
           \/ /\ call.op = "call_tool"
              /\ \E pending \in {Returned([content |-> "result"]), Raised("MCPExecutionError")} :
                     ops' = [ops EXCEPT ![t] = [used EXCEPT !.pending = pending]]
           \/ ops' = [ops EXCEPT ![t] = [used EXCEPT !.pending = Raised("Exception")]]
        /\ UNCHANGED <<mcp_servers, mcp_cache, session_count, changes, op_calls, sessOthers>>

\* the async with blocks are left: the session and its transport are closed,
\* then call_tool returns or raises, and list_tools raises or goes on to
\* store the tools
CloseSession(t) ==
    LET call == ops[t]
        closed == [call EXCEPT !.log = Append(@, "close")]
    IN  /\ call.pc = "close"
        /\ ops' = [ops EXCEPT ![t] =
               IF call.op = "list_tools" /\ call.pending.kind = "return"
               THEN [closed EXCEPT !.pc = "store"]
               ELSE Done(closed, call.pending)]
        /\ UNCHANGED <<mcp_servers, mcp_cache, session_count, changes, op_calls, sessOthers>>

\* _get_tools_for_server: the locked cache update, and the return
StoreTools(t) ==
    LET call == ops[t]
    IN  /\ call.pc = "store"
        /\ mcp_cache' = [mcp_cache EXCEPT ![call.server_id] = [tools |-> call.tools]]
        /\ ops' = [ops EXCEPT ![t] = Done(call, call.pending)]
        /\ UNCHANGED <<mcp_servers, session_count, changes, op_calls, sessOthers>>

SessionOperation ==
    \E t \in Threads :
        BeginOperation(t) \/ ResolveServer(t) \/ CheckCache(t) \/ OpenSession(t)
            \/ InitializeSession(t) \/ Operate(t) \/ CloseSession(t) \/ StoreTools(t)

SessNext == UpsertPayload \/ InstallFromCatalog \/ RemoveServer \/ SessionOperation

-----------------------------------------------------------------------------
(* Properties of the registry configs and of the sessions *)

\* C13: every server config stored in the registry has exactly one of its
\* http, sse and stdio sub-configs non-null, the one its transport names.
C13_OneSubConfigMatchingTransport ==
    \A id \in ServerIds :
        mcp_servers[id] # NoServer =>
            /\ mcp_servers[id].transport \in {"http", "sse", "stdio"}
            /\ mcp_servers[id].subs = {mcp_servers[id].transport}

\* C15: a list_tools or call_tool invocation on a server that was
\* unregistered or disabled when it was called, and was not enabled while it
\* ran, ends with MCPConfigError: it returns no tools and makes no tool call.
C15_DisabledOrUnknownServerFails ==
    \A t \in Threads :
        (ops[t].off /\ ops[t].pc # "lookup") =>
            /\ ~ops[t].called
            /\ ops[t].log = <<>>
            /\ ops[t].pc = "done" => ops[t].result = Raised("MCPConfigError")

BrokerVia == Via("http", "broker", "x-api-key", FALSE)

\* C16: an invocation on an enabled server with an oauth_connection_id opens
\* a session only when the broker reported a status that is "active" ignoring
\* case, and then over streamable HTTP against the broker's endpoint with the
\* API-key header, whatever the stored transport and without reading the
\* server's secrets; with any other status it ends with MCPConfigError and no
\* transport opened.
C16_OAuthSessionOnlyWhenActive ==
    \A t \in Threads :
        (ops[t].server # NoServer /\ ops[t].server.enabled /\ ops[t].server.oauth) =>
            /\ ops[t].via \in {NoVia, BrokerVia}
            /\ ops[t].log # <<>> =>
                   /\ ops[t].asked
                   /\ StrLower(ops[t].status) = Active
                   /\ ops[t].via = BrokerVia
            /\ (ops[t].asked /\ StrLower(ops[t].status) # Active) =>
                   /\ ops[t].log = <<>>
                   /\ ops[t].pc = "done"
                   /\ ops[t].result = Raised("MCPConfigError")

\* a session opened for a server stored with the stdio transport, the broker
\* having answered "ACTIVE"
C16_Witness ==
    \E t \in Threads :
        /\ ops[t].server # NoServer
        /\ ops[t].server.oauth /\ ops[t].server.transport = "stdio"
        /\ ops[t].status = <<"A", "C", "T", "I", "V", "E">>
        /\ ops[t].via = BrokerVia
        /\ ops[t].log = <<"open", "initialize", "operate", "close">>
        /\ ops[t].result.kind = "return"

IsPrefix(s, t) == Len(s) <= Len(t) /\ s = SubSeq(t, 1, Len(s))

FullSession == <<"open", "initialize", "operate", "close">>

\* C19: every invocation opens at most one session, initializes it before
\* operating on it, and has closed it when it returns or raises (and before
\* it stores the tools); no two invocations share a session.
C19_SessionScopedToOneOperation ==
    /\ \A t \in Threads :
           /\ \/ IsPrefix(ops[t].log, FullSession)
              \/ ops[t].log = <<"open", "initialize", "close">>
           /\ ops[t].pc \in {"idle", "done", "store"} =>
                  ops[t].log \in {<<>>, FullSession, <<"open", "initialize", "close">>}
           /\ ops[t].log # <<>> <=> ops[t].sid # 0
    /\ \A t, u \in Threads :
           (t # u /\ ops[t].sid # 0) => ops[t].sid # ops[u].sid

\* one invocation has returned with its session closed while another one has
\* operated on a session of its own, not closed yet
C19_Witness ==
    \E t, u \in Threads :
        /\ ops[t].pc = "done" /\ ops[t].log = FullSession
        /\ ops[u].pc = "close" /\ ops[u].log = <<"open", "initialize", "operate">>
        /\ ops[t].sid # ops[u].sid

-----------------------------------------------------------------------------
(* Two runs of the server registry over secret stores with different values *)

\* A run is its registry, its keyring (per key of the server, the stored value
\* or None), its registry file, and its last operation with its result.
RegistryRun(registry, keyring, file, out) ==
    [servers |-> registry, keyring |-> keyring, file |-> file, op |-> "none", out |-> out]

\* A variant of list_secret_flags that reports the stored values.
SecretFlags_Values(keyring, keys) ==
    [i \in 1..Len(keys) |-> <<keys[i], keyring[keys[i]]>>]

\* list_secret_flags(server_id, keys): get_secret(...) is not None, per key
SecretFlags(keyring, keys) ==
    [i \in 1..Len(keys) |-> <<keys[i], BoolV(keyring[keys[i]] # NoneV)>>]

\* get_server: a copy of the config with the secretsSet flags, or None
ServerView(r, server_id) ==
    IF r.servers[server_id] = NoServer THEN NoneV
    ELSE [config |-> r.servers[server_id],
          secretsSet |-> SecretFlags(r.keyring, r.servers[server_id].secret_fields)]

\* upsert_server(payload): store, persist, return get_server(server_id)
UpsertRun(r, server_id, payload) ==
    LET registry == [r.servers EXCEPT ![server_id] = payload]
        stored == [r EXCEPT !.servers = registry, !.file = registry]
    IN  [stored EXCEPT !.op = "upsert_server",
                       !.out = Returned(ServerView(stored, server_id))]

\* set_secret: an empty or missing value deletes the secret
SetSecretValue(keyring, key, value) ==
    [keyring EXCEPT ![key] = IF NonEmpty(value) THEN value ELSE NoneV]

\* the keyring after the first n items of the secrets dict have been set
RECURSIVE SetSecrets(_, _, _)
SetSecrets(keyring, items, n) ==
    IF n = 0 THEN keyring
    ELSE SetSecretValue(SetSecrets(keyring, items, n - 1), items[n][1], items[n][2])

\* update_secrets(server_id, secrets), the keyring failing at item fail_at
\* (0: never)
UpdateSecretsRun(r, server_id, items, fail_at) ==
    IF r.servers[server_id] = NoServer
    THEN [r EXCEPT !.op = "update_secrets", !.out = Raised("MCPConfigError")]
    ELSE IF fail_at > 0
    THEN [r EXCEPT !.keyring = SetSecrets(r.keyring, items, fail_at - 1),
                   !.op = "update_secrets", !.out = Raised("RuntimeError")]
    ELSE [r EXCEPT !.keyring = SetSecrets(r.keyring, items, Len(items)),
                   !.op = "update_secrets",
                   !.out = Returned(SecretFlags(SetSecrets(r.keyring, items, Len(items)),
                                                [i \in 1..Len(items) |-> items[i][1]]))]

\* list_servers()
ListServersRun(r) ==
    [r EXCEPT !.op = "list_servers",
              !.out = Returned([id \in ServerIds |-> ServerView(r, id)])]

\* get_server(server_id)
GetServerRun(r, server_id) ==
    [r EXCEPT !.op = "get_server", !.out = Returned(ServerView(r, server_id))]

-----------------------------------------------------------------------------
(* Inputs of the two runs *)

MaxRunOps == 2

SecretValues == {StrV(<<"a">>), StrV(<<"b">>)}

\* two values that are both empty or missing, or both given
ValuePairs ==
    {<<NoneV, NoneV>>, <<EmptyStr, EmptyStr>>} \cup (SecretValues \X SecretValues)

SecretFieldLists == {<<>>, <<"K1">>, <<"K1", "K2">>}

\* the keys of a secrets dict
SecretKeyLists == {<<"K1">>, <<"K2", "K1">>}

\* two keyrings that hold values for the same keys
KeyringPairs ==
    {pair \in [SecretKeys -> SecretValues \cup {NoneV}] \X [SecretKeys -> SecretValues \cup {NoneV}] :
        \A key \in SecretKeys : (pair[1][key] = NoneV) <=> (pair[2][key] = NoneV)}

-----------------------------------------------------------------------------
(* Specification of the two runs *)

NiInit ==
    /\ \E pair \in KeyringPairs, fields \in SecretFieldLists \cup {<<"none">>} :
           LET registry == [id \in ServerIds |->
                               IF fields = <<"none">> THEN NoServer
                               ELSE [id |-> id, secret_fields |-> fields]]
           IN  ni_runs = [i \in 1..2 |-> RegistryRun(registry, pair[i], registry, NoOutcome)]
    /\ ni_ops = 0

NiIdle ==
    /\ ni_runs = [i \in 1..2 |->
                     RegistryRun([id \in ServerIds |-> NoServer],
                                 [key \in SecretKeys |-> NoneV],
                                 [id \in ServerIds |-> NoServer], NoOutcome)]
    /\ ni_ops = 0

BothRuns(next) ==
    /\ ni_ops < MaxRunOps
    /\ ni_ops' = ni_ops + 1
    /\ ni_runs' = next

\* both runs call upsert_server with the same payload
BothUpsert ==
    \E id \in ServerIds, fields \in SecretFieldLists :
        /\ BothRuns([i \in 1..2 |->
                        UpsertRun(ni_runs[i], id, [id |-> id, secret_fields |-> fields])])
        /\ UNCHANGED niOthers

\* both runs call update_secrets with the same keys, and values that are empty
\* in both or in neither
BothUpdateSecrets ==
    \E id \in ServerIds, keys \in SecretKeyLists :
        \E values \in [1..Len(keys) -> ValuePairs], fail_at \in 0..Len(keys) :
            /\ BothRuns([i \in 1..2 |->
                   UpdateSecretsRun(ni_runs[i], id,
                                    [k \in 1..Len(keys) |-> <<keys[k], values[k][i]>>],
                                    fail_at)])
            /\ UNCHANGED niOthers

\* both runs call list_servers
BothListServers ==
    /\ BothRuns([i \in 1..2 |-> ListServersRun(ni_runs[i])])
    /\ UNCHANGED niOthers

\* both runs call get_server
BothGetServer ==
    \E id \in ServerIds :
        /\ BothRuns([i \in 1..2 |-> GetServerRun(ni_runs[i], id)])
        /\ UNCHANGED niOthers

NiNext == BothUpsert \/ BothUpdateSecrets \/ BothListServers \/ BothGetServer

\* C17: two runs that perform the same operations and differ only in the
\* values held in the secret store get the same results from list_servers,
\* get_server, upsert_server and update_secrets and write the same registry
\* file.
C17_SecretValuesDoNotFlowOut ==
    /\ ni_runs[1].out = ni_runs[2].out
    /\ ni_runs[1].file = ni_runs[2].file

\* the runs hold different values for a declared secret whose flag the last
\* result reports as set
C17_Witness ==
    /\ ni_runs[1].keyring["K1"] # ni_runs[2].keyring["K1"]
    /\ ni_runs[1].servers["s"] # NoServer
    /\ ni_runs[1].op = "get_server"
    /\ ni_runs[1].out.value.secretsSet = <<<<"K1", BoolV(TRUE)>>>>

-----------------------------------------------------------------------------
(* execute_mcp from the confirmation gate on, and the read-aloud thread *)

\* the dict call_tool returns: CallToolResult.model_dump(mode="json")
RawResult(isError, content, structuredContent) ==
    [isError |-> isError, content |-> content, structuredContent |-> structuredContent]

NoRaw == RawResult("absent", "absent", "absent")

\* bool(d.get(key)) for the values a key of the raw result takes
Truthy(value) == value \in {"true", "items", "data"}

\* json.dumps(mcp_result, indent=2)
Serialized(raw) == [kind |-> "json", sections |-> <<>>, of |-> raw]

\* "\n".join(output_sections).strip() or "MCP tool executed successfully."
OutputText(raw) ==
    LET sections ==
            (IF Truthy(raw.structuredContent) THEN <<"structuredContent">> ELSE <<>>)
                \o (IF Truthy(raw.content) THEN <<"content">> ELSE <<>>)
    IN  IF sections = <<>>
        THEN [kind |-> "MCP tool executed successfully.", sections |-> <<>>, of |-> NoRaw]
        ELSE [kind |-> "dumps", sections |-> sections, of |-> raw]

NoOutput == [kind |-> "", sections |-> <<>>, of |-> NoRaw]

\* create_result(command, success, start_time, error=..., output=...)
CreateResult(success, error, output) ==
    [success |-> success, error |-> error, output |-> output]

NoMcpResult == CreateResult(FALSE, "no result", NoOutput)

\* A variant that does not look at isError.
ResultOfRaw_IgnoresIsError(raw) == CreateResult(TRUE, "", OutputText(raw))

\* the result execute_mcp creates from the dict call_tool returned
ResultOfRaw(raw) ==
    IF Truthy(raw.isError)
    THEN CreateResult(FALSE, "MCP tool returned an error", Serialized(raw))
    ELSE CreateResult(TRUE, "", OutputText(raw))

\* the result execute_mcp creates when call_tool raised
ResultOfRaise(error) ==
    CASE error \in {"MCPConfigError", "MCPExecutionError"} ->
             CreateResult(FALSE, "str(exc)", NoOutput)
      [] OTHER -> CreateResult(FALSE, "MCP execution error: str(exc)", NoOutput)

CallReturned(raw) == [kind |-> "returned", error |-> "", raw |-> raw]
CallRaised(error) == [kind |-> "raised", error |-> error, raw |-> NoRaw]
NotCalled == [kind |-> "none", error |-> "", raw |-> NoRaw]

-----------------------------------------------------------------------------
(* Inputs of execute_mcp *)

RawResults ==
    {RawResult(e, c, s) : e \in {"absent", "false", "true"},
                          c \in {"absent", "empty", "items"},
                          s \in {"absent", "data"}}

CallErrors == {"MCPConfigError", "MCPExecutionError", "Exception"}

\* original_transcript: None, '' or a text
Transcripts == {"none", "empty", "text"}

\* what try_speak_mcp_result meets: an import or get_server that raises, no
\* such server, a server without read_aloud, a server with read_aloud
Lookups == {"raises", "no_server", "quiet", "read_aloud"}

-----------------------------------------------------------------------------
(* Specification of execute_mcp and the read-aloud thread *)

MxInit ==
    /\ mx_call \in
          {[pc |-> "start", confirm_mode |-> c, transcript |-> t, outcome |-> NotCalled,
            result |-> NoMcpResult, lookup |-> "none"] :
              c \in BOOLEAN, t \in Transcripts}
    /\ speak_thread = "none"

MxIdle ==
    /\ mx_call = [pc |-> "idle"]
    /\ speak_thread = "none"

\* if confirm_mode and not request_confirmation(): return create_result(...)
McpDeclined ==
    /\ mx_call.pc = "start"
    /\ mx_call.confirm_mode
    /\ mx_call' = [mx_call EXCEPT !.pc = "returned",
                      !.result = CreateResult(FALSE, "Execution cancelled by user", NoOutput)]
    /\ UNCHANGED <<speak_thread, mxOthers>>

\* mcp_result = get_mcp_manager().call_tool(...) raises: the except clauses return
McpCallRaises ==
    /\ mx_call.pc = "start"
    /\ \E error \in CallErrors :
          mx_call' = [mx_call EXCEPT !.pc = "returned", !.outcome = CallRaised(error),
                         !.result = ResultOfRaise(error)]
    /\ UNCHANGED <<speak_thread, mxOthers>>

\* call_tool returns and the result is created from the dict
McpCallReturns ==
    /\ mx_call.pc = "start"
    /\ \E raw \in RawResults :
          mx_call' = [mx_call EXCEPT !.pc = "created", !.outcome = CallReturned(raw),
                         !.result = ResultOfRaw(raw)]
    /\ UNCHANGED <<speak_thread, mxOthers>>

\* A variant in which an exception of the lookup goes to the caller.
TrySpeak_Raises(lookup, started) ==
    /\ mx_call' = [mx_call EXCEPT !.pc = IF lookup = "raises" THEN "raised" ELSE "spoken_to",
                                  !.lookup = lookup]
    /\ speak_thread' = IF lookup = "read_aloud" /\ started THEN "running" ELSE speak_thread

\* try_speak_mcp_result(command, server_id, original_transcript, result):
\* every exception of the imports, of get_server and of thread.start() is
\* caught and printed
TrySpeak(lookup, started) ==
    /\ mx_call' = [mx_call EXCEPT !.pc = "spoken_to", !.lookup = lookup]
    /\ speak_thread' = IF lookup = "read_aloud" /\ started THEN "running" ELSE speak_thread

\* if original_transcript: try_speak_mcp_result(...)
McpTrySpeak ==
    /\ mx_call.pc = "created"
    /\ IF mx_call.transcript = "text"
       THEN \E lookup \in Lookups, started \in BOOLEAN : TrySpeak(lookup, started)
       ELSE /\ mx_call' = [mx_call EXCEPT !.pc = "spoken_to"]
            /\ UNCHANGED speak_thread
    /\ UNCHANGED mxOthers

\* return result
McpReturn ==
    /\ mx_call.pc = "spoken_to"
    /\ mx_call' = [mx_call EXCEPT !.pc = "returned"]
    /\ UNCHANGED <<speak_thread, mxOthers>>

\* speak_in_background ends: the result was spoken, speak_result returned
\* False, or process_and_speak_result raised and the exception was printed
SpeakEnds ==
    /\ speak_thread = "running"
    /\ speak_thread' \in {"spoken", "not_spoken", "failed"}
    /\ UNCHANGED <<mx_call, mxOthers>>

MxNext ==
    \/ McpDeclined
    \/ McpCallRaises
    \/ McpCallReturns
    \/ McpTrySpeak
    \/ McpReturn
    \/ SpeakEnds

-----------------------------------------------------------------------------
(* Properties of execute_mcp and the read-aloud thread *)

\* C24: execute_mcp returns success true only if call_tool returned without
\* raising and the result's isError flag is not true; when isError is true
\* the result has success false, the fixed generic error message and the
\* serialized raw tool result as output.
C24_SuccessOnlyWithoutError ==
    mx_call.pc = "returned" =>
        /\ mx_call.result.success =>
               mx_call.outcome.kind = "returned" /\ mx_call.outcome.raw.isError # "true"
        /\ (mx_call.outcome.kind = "returned" /\ mx_call.outcome.raw.isError = "true") =>
               /\ mx_call.result.success = FALSE
               /\ mx_call.result.error = "MCP tool returned an error"
               /\ mx_call.result.output = Serialized(mx_call.outcome.raw)

\* a tool result with isError true and content has been returned as a failure
C24_Witness ==
    /\ mx_call.pc = "returned"
    /\ mx_call.outcome = CallReturned(RawResult("true", "items", "absent"))
    /\ mx_call.result.success = FALSE
    /\ mx_call.result.output.kind = "json"

\* the result of an invocation whose call returned, as the claim has it: a
\* function of the confirmation and of what call_tool did
ExpectedResult ==
    CASE mx_call.outcome.kind = "returned" -> ResultOfRaw(mx_call.outcome.raw)
      [] mx_call.outcome.kind = "raised" -> ResultOfRaise(mx_call.outcome.error)
      [] OTHER -> CreateResult(FALSE, "Execution cancelled by user", NoOutput)

\* C25: the result execute_mcp returns is the same whether the read-aloud
\* path succeeds, fails or is still running, execute_mcp returns without
\* waiting for the speech to finish, and no failure of the read-aloud path
\* changes the result or raises into the caller.
C25_SpeechNeverChangesResult ==
    /\ mx_call.pc # "raised"
    /\ mx_call.pc = "returned" => mx_call.result = ExpectedResult
    /\ mx_call.pc = "spoken_to" => ENABLED McpReturn

\* execute_mcp has returned a success while the speech thread is running
C25_Witness ==
    /\ mx_call.pc = "returned"
    /\ mx_call.result.success
    /\ speak_thread = "running"

-----------------------------------------------------------------------------
(* CommandManager._build_property_schema and _prepare_enum_for_schema *)

\* str(value)
PyStr(value) ==
    CASE value.t = "str" -> value.s
      [] value.t = "int" -> IF value.n < 0 THEN <<"-">> \o IntToStr(0 - value.n)
                            ELSE IntToStr(value.n)
      [] value.t = "bool" -> IF value.b THEN <<"T", "r", "u", "e">>
                             ELSE <<"F", "a", "l", "s", "e">>
      [] OTHER -> <<"N", "o", "n", "e">>

\* isinstance(value, int) and not isinstance(value, bool)
IsPlainInt(value) == value.t = "int"

\* _map_param_type
MapParamType(param_type) ==
    IF param_type \in {"number", "integer", "boolean"} THEN param_type ELSE "string"

\* A variant that returns mixed values as they are.
PrepareEnumForSchema_Uncoerced(values) ==
    IF values = <<>> THEN <<"string", <<>>>>
    ELSE IF \A i \in 1..Len(values) : IsPlainInt(values[i]) THEN <<"integer", values>>
    ELSE <<"string", values>>

\* _prepare_enum_for_schema: <<schema_type, values>>
PrepareEnumForSchema(values) ==
    IF values = <<>> THEN <<"string", <<>>>>
    ELSE IF \A i \in 1..Len(values) : IsPlainInt(values[i]) THEN <<"integer", values>>
    ELSE IF \A i \in 1..Len(values) : values[i].t = "str" THEN <<"string", values>>
    ELSE <<"string", [i \in 1..Len(values) |-> StrV(PyStr(values[i]))]>>

\* a property schema, with or without the enum key
Schema(type, has_enum, enum, description) ==
    [type |-> type, has_enum |-> has_enum, enum |-> enum, description |-> description]

NoSchema == Schema("", FALSE, <<>>, "")

\* _build_property_schema(param, mapped_type, description)
BuildPropertySchema(param, mapped_type, description) ==
    LET option_values == IF param.options = NoneV THEN <<>> ELSE param.options.items
        prepared == PrepareEnumForSchema(option_values)
    IN  IF param.type = "options" /\ prepared[2] # <<>>
        THEN Schema(prepared[1], TRUE, prepared[2],
                    IF description # "" THEN description
                    ELSE "Select one of the available options")
        ELSE Schema(mapped_type, FALSE, <<>>, description)

-----------------------------------------------------------------------------
(* Inputs of _build_property_schema *)

MaxOptions == 3

OptionValues == {IntV(0), IntV(12), StrV(<<"a">>), StrV(<<"1", "2">>), BoolV(TRUE), NoneV}

\* param['options']: a list of values, or no such key
EnumOptionLists == {NoneV} \cup {ListV(items) : items \in SeqsUpTo(OptionValues, MaxOptions)}

EnumParams ==
    {[type |-> t, options |-> o, description |-> d] :
        t \in {"options", "integer"}, o \in EnumOptionLists, d \in {"", "d"}}

-----------------------------------------------------------------------------
(* Specification of _build_property_schema *)

EnInit ==
    /\ en_param \in EnumParams
    /\ en_schema = NoSchema

EnIdle ==
    /\ en_param = [type |-> "", options |-> NoneV, description |-> ""]
    /\ en_schema = NoSchema

\* properties[param_name] = self._build_property_schema(param, mapped_type, description)
CallBuildPropertySchema ==
    /\ en_schema = NoSchema
    /\ en_schema' = BuildPropertySchema(en_param, MapParamType(en_param.type),
                                        en_param.description)
    /\ UNCHANGED <<en_param, enOthers>>

EnNext == CallBuildPropertySchema

-----------------------------------------------------------------------------
(* Properties of _build_property_schema *)

\* the enum schema the claim describes for a list of option values
ClaimedEnum(values) ==
    IF \A i \in 1..Len(values) : values[i].t = "int"
    THEN <<"integer", values>>
    ELSE IF \A i \in 1..Len(values) : values[i].t = "str"
    THEN <<"string", values>>
    ELSE <<"string", [i \in 1..Len(values) |-> StrV(PyStr(values[i]))]>>

EnumSchemaAsClaimed ==
    LET claimed == ClaimedEnum(en_param.options.items)
    IN  /\ en_schema.has_enum
        /\ en_schema.type = claimed[1]
        /\ en_schema.enum = claimed[2]

\* C26 as stated: for every list of option values, the enum schema built for
\* an options parameter has type integer with the values unchanged when all
\* values are non-boolean integers, type string with the values unchanged
\* when all are strings, and otherwise type string with every value
\* converted to its string form.
C26_EnumSchemaForEveryList ==
    (en_schema # NoSchema /\ en_param.type = "options" /\ en_param.options # NoneV) =>
        EnumSchemaAsClaimed

\* C26 amended: the same for every non-empty list of option values.
C26_EnumSchemaForNonEmptyList ==
    (/\ en_schema # NoSchema
     /\ en_param.type = "options"
     /\ en_param.options # NoneV
     /\ en_param.options.items # <<>>) =>
        EnumSchemaAsClaimed

\* the mixed list [12, 'a', True] has been given the string enum
\* ['12', 'a', 'True']
C26_Witness ==
    /\ en_param.type = "options"
    /\ en_param.options = ListV(<<IntV(12), StrV(<<"a">>), BoolV(TRUE)>>)
    /\ en_schema.has_enum
    /\ en_schema.type = "string"
    /\ en_schema.enum = <<StrV(<<"1", "2">>), StrV(<<"a">>), StrV(<<"T", "r", "u", "e">>)>>

-----------------------------------------------------------------------------
(* The registry lock: which accesses each registry operation makes under it *)

\* One instruction of an operation: acquire or release self._lock, access
\* self._servers or self._tool_cache, call the secret store, write the
\* registry file, use an MCP session, return or raise. An instruction may
\* branch: `when` names the finding that makes the operation go on at `jump`.
Instr(k, how, when, jump) == [k |-> k, how |-> how, when |-> when, jump |-> jump]

AcquireLock == Instr("acquire", "with self._lock", "never", 0)
ReleaseLock == Instr("release", "with self._lock", "never", 0)
Registry(how) == Instr("registry", how, "never", 0)
RegistryOr(how, jump) == Instr("registry", how, "absent", jump)
Cache(how) == Instr("cache", how, "never", 0)
CacheOr(how, jump) == Instr("cache", how, "hit", jump)
SecretStore(call) == Instr("secret", call, "never", 0)
WriteFile == Instr("file", "_write_servers", "never", 0)
SessionOr(jump) == Instr("session", "_open_session", "fails", jump)
Return == Instr("return", "return", "never", 0)
Raise == Instr("raise", "MCPConfigError", "never", 0)

\* _persist
PersistCode == <<AcquireLock, Registry("values"), WriteFile, ReleaseLock>>

\* list_servers
ListServersCode ==
    <<AcquireLock, RegistryOr("values", 6), SecretStore("list_secret_flags"),
      ReleaseLock, Return,
      ReleaseLock, Return>>

\* get_server
GetServerCode ==
    <<AcquireLock, RegistryOr("get", 6), SecretStore("list_secret_flags"),
      ReleaseLock, Return,
      ReleaseLock, Return>>

\* upsert_server, from the lock on: store, invalidate, persist, then
\* get_server(server_id)
UpsertServerCode ==
    <<AcquireLock, Registry("set"), Cache("pop")>> \o PersistCode \o <<ReleaseLock>>
        \o <<AcquireLock, RegistryOr("get", 14), SecretStore("list_secret_flags"),
             ReleaseLock, Return,
             ReleaseLock, Return>>

\* delete_server
DeleteServerCode ==
    <<AcquireLock, Registry("contains"), RegistryOr("pop", 12)>> \o PersistCode
        \o <<ReleaseLock, SecretStore("delete_secret"), Cache("pop"), Return,
             ReleaseLock, Return>>

\* update_secrets
UpdateSecretsCode ==
    <<AcquireLock, RegistryOr("contains", 10), ReleaseLock, SecretStore("set_secret"),
      AcquireLock, Cache("pop"), ReleaseLock, SecretStore("list_secret_flags"), Return,
      ReleaseLock, Raise>>

\* secret_status
SecretStatusCode ==
    <<AcquireLock, RegistryOr("get", 6), ReleaseLock, SecretStore("list_secret_flags"),
      Return,
      ReleaseLock, Raise>>

\* list_tools(server_id) and _get_tools_for_server; the session reads the
\* secrets of the server when it opens
ListToolsCode ==
    <<RegistryOr("get", 13), AcquireLock, CacheOr("get", 11), ReleaseLock,
      SecretStore("get_secret"), SessionOr(13), AcquireLock, Cache("set"), ReleaseLock,
      Return,
      ReleaseLock, Return,
      Raise>>

\* call_tool
CallToolCode ==
    <<RegistryOr("get", 5), SecretStore("get_secret"), SessionOr(5), Return,
      Raise>>

LockOps ==
    {"list_servers", "get_server", "upsert_server", "delete_server", "update_secrets",
     "secret_status", "list_tools", "call_tool"}

Code(op) ==
    CASE op = "list_servers" -> ListServersCode
      [] op = "get_server" -> GetServerCode
      [] op = "upsert_server" -> UpsertServerCode
      [] op = "delete_server" -> DeleteServerCode
      [] op = "update_secrets" -> UpdateSecretsCode
      [] op = "secret_status" -> SecretStatusCode
      [] op = "list_tools" -> ListToolsCode
      [] OTHER -> CallToolCode

-----------------------------------------------------------------------------
(* Specification of the registry lock *)

MaxLockCalls == 2

Unlocked == [owner |-> "none", count |-> 0]
NotRunning == [op |-> "idle", pc |-> 0]
NoAccess == [thread |-> "none", op |-> "none", object |-> "none", how |-> "none",
             locked |-> FALSE]

LkInit ==
    /\ lk_registry \in BOOLEAN
    /\ lk_cache \in BOOLEAN
    /\ lk_lock = Unlocked
    /\ lk_threads = [t \in Threads |-> NotRunning]
    /\ lk_last = NoAccess
    /\ lk_calls = 0

LkIdle ==
    /\ lk_registry = FALSE
    /\ lk_cache = FALSE
    /\ lk_lock = Unlocked
    /\ lk_threads = [t \in Threads |-> NotRunning]
    /\ lk_last = NoAccess
    /\ lk_calls = 0

\* the instruction thread t is at
Current(t) == Code(lk_threads[t].op)[lk_threads[t].pc]

At(t, k) == lk_threads[t].op # "idle" /\ Current(t).k = k

Goto(t, pc) == lk_threads' = [lk_threads EXCEPT ![t].pc = pc]

Holds(t) == lk_lock.owner = t

Access(t, object) ==
    lk_last' = [thread |-> t, op |-> lk_threads[t].op, object |-> object,
                how |-> Current(t).how, locked |-> Holds(t)]

\* a thread calls a registry operation
StartCall(t) ==
    /\ lk_threads[t].op = "idle"
    /\ lk_calls < MaxLockCalls
    /\ \E op \in LockOps : lk_threads' = [lk_threads EXCEPT ![t] = [op |-> op, pc |-> 1]]
    /\ lk_calls' = lk_calls + 1
    /\ UNCHANGED <<lk_registry, lk_cache, lk_lock, lk_last, lkOthers>>

\* with self._lock: (entry); the lock is reentrant
Acquire(t) ==
    /\ At(t, "acquire")
    /\ lk_lock.owner \in {"none", t}
    /\ lk_lock' = [owner |-> t, count |-> lk_lock.count + 1]
    /\ Goto(t, lk_threads[t].pc + 1)
    /\ UNCHANGED <<lk_registry, lk_cache, lk_last, lk_calls, lkOthers>>

\* with self._lock: (exit)
Release(t) ==
    /\ At(t, "release")
    /\ lk_lock' = IF lk_lock.count = 1 THEN Unlocked
                  ELSE [lk_lock EXCEPT !.count = lk_lock.count - 1]
    /\ Goto(t, lk_threads[t].pc + 1)
    /\ UNCHANGED <<lk_registry, lk_cache, lk_last, lk_calls, lkOthers>>

\* a read or a write of self._servers
AccessRegistry(t) ==
    /\ At(t, "registry")
    /\ Access(t, "registry")
    /\ lk_registry' = CASE Current(t).how = "set" -> TRUE
                        [] Current(t).how = "pop" -> FALSE
                        [] OTHER -> lk_registry
    /\ Goto(t, IF Current(t).when = "absent" /\ ~lk_registry THEN Current(t).jump
               ELSE lk_threads[t].pc + 1)
    /\ UNCHANGED <<lk_cache, lk_lock, lk_calls, lkOthers>>

\* a read or a write of self._tool_cache; an entry that is found is returned
\* when it is fresh and no refresh is forced
AccessCache(t) ==
    /\ At(t, "cache")
    /\ Access(t, "cache")
    /\ lk_cache' = CASE Current(t).how = "set" -> TRUE
                     [] Current(t).how = "pop" -> FALSE
                     [] OTHER -> lk_cache
    /\ \E fresh \in BOOLEAN :
          Goto(t, IF Current(t).when = "hit" /\ lk_cache /\ fresh THEN Current(t).jump
                  ELSE lk_threads[t].pc + 1)
    /\ UNCHANGED <<lk_registry, lk_lock, lk_calls, lkOthers>>

\* list_secret_flags, set_secret, delete_secret or get_secret
CallSecretStore(t) ==
    /\ At(t, "secret")
    /\ Access(t, "secret")
    /\ Goto(t, lk_threads[t].pc + 1)
    /\ UNCHANGED <<lk_registry, lk_cache, lk_lock, lk_calls, lkOthers>>

\* _write_servers(data), or the use of an MCP session, which may fail
InputOutput(t) ==
    /\ At(t, "file") \/ At(t, "session")
    /\ \E fails \in BOOLEAN :
          Goto(t, IF Current(t).when = "fails" /\ fails THEN Current(t).jump
                  ELSE lk_threads[t].pc + 1)
    /\ UNCHANGED <<lk_registry, lk_cache, lk_lock, lk_last, lk_calls, lkOthers>>

\* the operation returns or raises
Finish(t) ==
    /\ At(t, "return") \/ At(t, "raise")
    /\ lk_threads' = [lk_threads EXCEPT ![t] = NotRunning]
    /\ UNCHANGED <<lk_registry, lk_cache, lk_lock, lk_last, lk_calls, lkOthers>>

LkNext ==
    \E t \in Threads :
        \/ StartCall(t)
        \/ Acquire(t)
        \/ Release(t)
        \/ AccessRegistry(t)
        \/ AccessCache(t)
        \/ CallSecretStore(t)
        \/ InputOutput(t)
        \/ Finish(t)

-----------------------------------------------------------------------------
(* Properties of the registry lock *)

\* C27: no registry operation (list_servers, get_server, upsert_server,
\* delete_server, update_secrets, secret_status) calls the secret store
\* while it holds the registry lock.
C27_SecretStoreCalledOutsideLock ==
    (/\ lk_last.object = "secret"
     /\ lk_last.op \in {"list_servers", "get_server", "upsert_server", "delete_server",
                        "update_secrets", "secret_status"}) =>
        ~lk_last.locked

\* C28: every read and every write of the server registry map and of the
\* tool cache, every cache invalidation included, is made while the registry
\* lock is held, in all of upsert_server, delete_server, update_secrets,
\* list_tools and call_tool.
C28_RegistryAndCacheUnderLock ==
    (/\ lk_last.object \in {"registry", "cache"}
     /\ lk_last.op \in {"upsert_server", "delete_server", "update_secrets", "list_tools",
                        "call_tool"}) =>
        lk_last.locked

\* the lock is held by a thread that is inside a with block, and free otherwise
LockBalanced ==
    /\ lk_lock.owner = "none" <=> lk_lock.count = 0
    /\ \A t \in Threads : lk_threads[t].op = "idle" => lk_lock.owner # t

-----------------------------------------------------------------------------
(* _open_session of a non-OAuth server: secrets rendered into templates *)

\* TEMPLATE_PATTERN.sub(replace, value), from position i on: a match is
\* '{{', one or more characters other than '}', '}}'; the key is stripped
\* and looked up with context.get(key, "")
RECURSIVE RenderFrom(_, _, _)
RenderFrom(s, i, context) ==
    IF i > Len(s) THEN <<>>
    ELSE LET close == FirstIn(s, i + 2, {"}"})
             matched == /\ i + 1 <= Len(s)
                        /\ s[i] = "{"
                        /\ s[i + 1] = "{"
                        /\ close >= i + 3
                        /\ close + 1 <= Len(s)
                        /\ s[close + 1] = "}"
             key == StrStrip(SubSeq(s, i + 2, close - 1))
         IN  IF matched
             THEN (IF DHas(context, key) THEN DGet(context, key).s ELSE <<>>)
                      \o RenderFrom(s, close + 2, context)
             ELSE <<s[i]>> \o RenderFrom(s, i + 1, context)

\* A variant that renders every placeholder as the empty string.
RenderTemplate_NoSecrets(value, context) == RenderFrom(value, 1, <<>>)

\* _render_template(value, context)
RenderTemplate(value, context) == RenderFrom(value, 1, context)

\* _secret_keys(server): the str entries and the key of the dict entries
\* that have one
RECURSIVE DeclaredSecretKeys(_)
DeclaredSecretKeys(secret_fields) ==
    IF secret_fields = <<>> THEN <<>>
    ELSE LET entry == Head(secret_fields)
             rest == DeclaredSecretKeys(Tail(secret_fields))
         IN  IF entry.t = "str" THEN <<entry.s>> \o rest
             ELSE IF entry.t = "dict" /\ NonEmpty(entry.key) THEN <<entry.key.s>> \o rest
             ELSE rest

\* _get_secret_values: the secrets of the declared keys that are stored and
\* not empty; the missing ones are printed in a warning
RECURSIVE GetSecretValues(_, _)
GetSecretValues(keyring, keys) ==
    IF keys = <<>> THEN <<>>
    ELSE LET secret == DGetOrNone(keyring, Head(keys))
             rest == GetSecretValues(keyring, Tail(keys))
         IN  IF NonEmpty(secret) THEN DPut(rest, Head(keys), secret) ELSE rest

\* the text of a template given as pieces
PieceText(piece) == piece.text
TemplateText(pieces) == Flatten([i \in 1..Len(pieces) |-> PieceText(pieces[i])])

\* _build_headers, _build_query_params, _build_stdio_env: entries without a
\* key are skipped, the value of the others is rendered
RECURSIVE BuildEntries(_, _)
BuildEntries(entries, secret_values) ==
    IF entries = <<>> THEN <<>>
    ELSE LET entry == entries[Len(entries)]
             before == BuildEntries(SubSeq(entries, 1, Len(entries) - 1), secret_values)
         IN  IF ~NonEmpty(entry.key) THEN before
             ELSE DPut(before, entry.key.s, RenderTemplate(TemplateText(entry.value), secret_values))

NotOpened == [outcome |-> "none", headers |-> <<>>, query_params |-> <<>>, env |-> <<>>]

\* _open_session after the OAuth branch: the secrets are read, then the
\* transport is opened with the rendered values, or the config is rejected
OpenWithSecrets(server, keyring) ==
    LET secret_values == GetSecretValues(keyring, DeclaredSecretKeys(server.secret_fields))
        rendered == BuildEntries(server.entries, secret_values)
    IN  IF server.transport \notin {"sse", "http", "stdio"} \/ ~server.has_target
        THEN [NotOpened EXCEPT !.outcome = "MCPConfigError"]
        ELSE IF server.transport = "stdio"
        THEN [NotOpened EXCEPT !.outcome = "opened", !.env = rendered]
        ELSE [NotOpened EXCEPT !.outcome = "opened", !.headers = rendered,
                               !.query_params = rendered]

-----------------------------------------------------------------------------
(* Inputs of _open_session *)

MaxPieces == 3

KeyT == <<"T">>
KeyU == <<"U">>

Text(chars) == [kind |-> "text", text |-> chars, key |-> <<>>]
PlaceholderPiece(chars, key) == [kind |-> "placeholder", text |-> chars, key |-> key]

\* text without an opening brace next to a placeholder, and placeholders of
\* a declared and stored key (plain and with blanks around the key), of a
\* declared key and of a key that is not declared
Pieces ==
    {Text(<<"a">>), Text(<<"}">>), Text(<<"{", "a">>),
     PlaceholderPiece(<<"{", "{", "T", "}", "}">>, KeyT),
     PlaceholderPiece(<<"{", "{", " ", "T", " ", "}", "}">>, KeyT),
     PlaceholderPiece(<<"{", "{", "U", "}", "}">>, KeyU),
     PlaceholderPiece(<<"{", "{", "X", "}", "}">>, <<"X">>)}

SecretFieldEntries ==
    {<<>>,
     <<StrV(KeyT)>>,
     <<[t |-> "dict", key |-> StrV(KeyT)], StrV(KeyU)>>,
     <<[t |-> "dict", key |-> NoneV], StrV(KeyU)>>}

\* the keyring always has a secret X, which no server declares
Keyrings ==
    {<<<<<<"X">>, StrV(<<"x">>)>>>> \o t \o u :
        t \in {<<>>, <<<<KeyT, StrV(<<"v">>)>>>>, <<<<KeyT, StrV(<<"{", "{", "U", "}", "}">>)>>>>},
        u \in {<<>>, <<<<KeyU, StrV(<<"w">>)>>>>}}

TemplatedServers ==
    {[transport |-> tr, has_target |-> target, secret_fields |-> fields,
      entries |-> <<[key |-> NoneV, value |-> <<PlaceholderPiece(<<"{", "{", "T", "}", "}">>, KeyT)>>],
                    [key |-> StrV(<<"h">>), value |-> pieces]>>] :
        tr \in {"sse", "http", "stdio"}, target \in BOOLEAN,
        fields \in SecretFieldEntries, pieces \in SeqsUpTo(Pieces, MaxPieces)}

-----------------------------------------------------------------------------
(* Specification of _open_session with secrets *)

TpInit ==
    /\ tp_server \in TemplatedServers
    /\ tp_keyring \in Keyrings
    /\ tp_open = NotOpened

TpIdle ==
    /\ tp_server = [transport |-> "", has_target |-> FALSE, secret_fields |-> <<>>,
                    entries |-> <<>>]
    /\ tp_keyring = <<>>
    /\ tp_open = NotOpened

\* async with self._open_session(server) as session, on the non-OAuth path
OpenTemplatedSession ==
    /\ tp_open = NotOpened
    /\ tp_open' = OpenWithSecrets(tp_server, tp_keyring)
    /\ UNCHANGED <<tp_server, tp_keyring, tpOthers>>

TpNext == OpenTemplatedSession

-----------------------------------------------------------------------------
(* Properties of _open_session with secrets *)

\* the keys the server declares as secret fields
DeclaredKeys ==
    {f.s : f \in {tp_server.secret_fields[i] : i \in 1..Len(tp_server.secret_fields)}
              \cap {StrV(KeyT), StrV(KeyU)}}
        \cup {k \in {KeyT, KeyU} :
                \E i \in 1..Len(tp_server.secret_fields) :
                    tp_server.secret_fields[i] = [t |-> "dict", key |-> StrV(k)]}

\* what the claim has a piece rendered as
ClaimedPiece(piece) ==
    IF piece.kind = "text" THEN piece.text
    ELSE IF piece.key \in DeclaredKeys /\ DHas(tp_keyring, piece.key)
    THEN DGet(tp_keyring, piece.key).s
    ELSE <<>>

ClaimedValue(pieces) == Flatten([i \in 1..Len(pieces) |-> ClaimedPiece(pieces[i])])

\* C21: for a non-OAuth server, when a session is opened every {{key}}
\* placeholder in a header, query or env value whose key is a declared
\* secret field with a stored value is replaced by that value, every other
\* placeholder is replaced by the empty string, text outside placeholders is
\* unchanged, and a missing secret never aborts the open.
C21_SecretsRenderedIntoTemplates ==
    tp_open # NotOpened =>
        /\ tp_server.has_target => tp_open.outcome = "opened"
        /\ tp_open.outcome = "opened" =>
              LET claimed == <<<<<<"h">>, ClaimedValue(tp_server.entries[2].value)>>>>
              IN  IF tp_server.transport = "stdio"
                  THEN tp_open.env = claimed
                  ELSE tp_open.headers = claimed /\ tp_open.query_params = claimed

\* the header 'a{{T}}{{U}}' of an http server that declares T and U and has
\* a stored value for T only has been rendered as 'av'
C21_Witness ==
    /\ tp_open.outcome = "opened"
    /\ tp_server.transport = "http"
    /\ DeclaredKeys = {KeyT, KeyU}
    /\ TemplateText(tp_server.entries[2].value)
           = <<"a", "{", "{", "T", "}", "}", "{", "{", "U", "}", "}">>
    /\ DGetOrNone(tp_keyring, KeyT) = StrV(<<"v">>)
    /\ ~DHas(tp_keyring, KeyU)
    /\ tp_open.headers = <<<<<<"h">>, <<"a", "v">>>>>>

(***************************************************************************)
(* WisprMonitor.start, WisprMonitor.stop and the monitor loop thread       *)
(* (src/monitor.py).  start and stop are called from several threads: the  *)
(* tray application starts a thread per menu click and the web server      *)
(* serves each request in its own thread.  Every statement that reads or   *)
(* writes is_running, _stop_event or monitor_thread is one step.           *)
(***************************************************************************)
MaxMonitorCalls == 3

\* positions of a loop thread in _monitor_loop
AtTest == "test"
Polling == "polling"
Processing == "processing"
Sleeping == "sleeping"
Exited == "exited"

NoThread == 0

Caller(pc, target) == [pc |-> pc, target |-> target]

NotCalling == Caller("idle", NoThread)

MonInit ==
    /\ is_running = FALSE
    /\ stop_event = FALSE
    /\ loops = << >>
    /\ monitor_thread = NoThread
    /\ callers = [c \in Threads |-> NotCalling]
    /\ mon_calls = 0

MonIdle == MonInit

CallerAt(c, pc) == callers[c].pc = pc

CallerGoto(c, pc) == callers' = [callers EXCEPT ![c] = Caller(pc, NoThread)]

\* start(): "if self.is_running: return", the call returns at once
StartWhileRunning(c) ==
    /\ CallerAt(c, "idle")
    /\ mon_calls < MaxMonitorCalls
    /\ is_running
    /\ mon_calls' = mon_calls + 1
    /\ UNCHANGED <<is_running, stop_event, loops, monitor_thread, callers, monOthers>>

\* start(): the check passes and the call goes on to the banner, the
\* database checks and the baseline query
StartCheck(c) ==
    /\ CallerAt(c, "idle")
    /\ mon_calls < MaxMonitorCalls
    /\ ~is_running
    /\ mon_calls' = mon_calls + 1
    /\ CallerGoto(c, "preamble")
    /\ UNCHANGED <<is_running, stop_event, loops, monitor_thread, monOthers>>

\* start(): the database file is missing or no connection can be opened
StartAborts(c) ==
    /\ CallerAt(c, "preamble")
    /\ CallerGoto(c, "idle")
    /\ UNCHANGED <<is_running, stop_event, loops, monitor_thread, mon_calls, monOthers>>

\* start(): self.is_running = True
StartSetRunning(c) ==
    /\ CallerAt(c, "preamble")
    /\ is_running' = TRUE
    /\ CallerGoto(c, "clear_event")
    /\ UNCHANGED <<stop_event, loops, monitor_thread, mon_calls, monOthers>>

\* start(): self._stop_event.clear()
StartClearEvent(c) ==
    /\ CallerAt(c, "clear_event")
    /\ stop_event' = FALSE
    /\ CallerGoto(c, "start_thread")
    /\ UNCHANGED <<is_running, loops, monitor_thread, mon_calls, monOthers>>

\* start(): self.monitor_thread = Thread(target=self._monitor_loop);
\* self.monitor_thread.start()
StartThread(c) ==
    /\ CallerAt(c, "start_thread")
    /\ loops' = Append(loops, AtTest)
    /\ monitor_thread' = Len(loops) + 1
    /\ CallerGoto(c, "idle")
    /\ UNCHANGED <<is_running, stop_event, mon_calls, monOthers>>

\* stop(): "if not self.is_running: return"
StopWhileStopped(c) ==
    /\ CallerAt(c, "idle")
    /\ mon_calls < MaxMonitorCalls
    /\ ~is_running
    /\ mon_calls' = mon_calls + 1
    /\ UNCHANGED <<is_running, stop_event, loops, monitor_thread, callers, monOthers>>

\* stop(): the check passes
StopCheck(c) ==
    /\ CallerAt(c, "idle")
    /\ mon_calls < MaxMonitorCalls
    /\ is_running
    /\ mon_calls' = mon_calls + 1
    /\ CallerGoto(c, "clear_running")
    /\ UNCHANGED <<is_running, stop_event, loops, monitor_thread, monOthers>>

\* stop(): self.is_running = False
StopClearRunning(c) ==
    /\ CallerAt(c, "clear_running")
    /\ is_running' = FALSE
    /\ CallerGoto(c, "set_event")
    /\ UNCHANGED <<stop_event, loops, monitor_thread, mon_calls, monOthers>>

\* stop(): self._stop_event.set(), then "if self.monitor_thread:" picks
\* the thread to join
StopSetEvent(c) ==
    /\ CallerAt(c, "set_event")
    /\ stop_event' = TRUE
    /\ callers' = [callers EXCEPT ![c] =
                       IF monitor_thread = NoThread THEN NotCalling
                       ELSE Caller("joining", monitor_thread)]
    /\ UNCHANGED <<is_running, loops, monitor_thread, mon_calls, monOthers>>

\* stop(): join(timeout=5) returns because the thread has ended
StopJoined(c) ==
    /\ CallerAt(c, "joining")
    /\ loops[callers[c].target] = Exited
    /\ CallerGoto(c, "idle")
    /\ UNCHANGED <<is_running, stop_event, loops, monitor_thread, mon_calls, monOthers>>

\* stop(): join(timeout=5) times out.  A sleeping loop wakes within the
\* poll interval of 1.5 seconds, so only a loop that is still processing a
\* command outlasts the five seconds.
StopJoinTimesOut(c) ==
    /\ CallerAt(c, "joining")
    /\ loops[callers[c].target] = Processing
    /\ CallerGoto(c, "idle")
    /\ UNCHANGED <<is_running, stop_event, loops, monitor_thread, mon_calls, monOthers>>

LoopGoto(l, pos) == loops' = [loops EXCEPT ![l] = pos]

\* _monitor_loop: "while not self._stop_event.is_set():"
LoopTest(l) ==
    /\ loops[l] = AtTest
    /\ LoopGoto(l, IF stop_event THEN Exited ELSE Polling)
    /\ UNCHANGED <<is_running, stop_event, monitor_thread, callers, mon_calls, monOthers>>

\* _monitor_loop: the connection and the query for a new transcript; a
\* command transcript is processed, anything else (no connection, nothing
\* new, no activation word, an exception) goes to the sleep
LoopPoll(l) ==
    /\ loops[l] = Polling
    /\ \E command \in BOOLEAN : LoopGoto(l, IF command THEN Processing ELSE Sleeping)
    /\ UNCHANGED <<is_running, stop_event, monitor_thread, callers, mon_calls, monOthers>>

\* _monitor_loop: process_command returns (or raises)
LoopProcessed(l) ==
    /\ loops[l] = Processing
    /\ LoopGoto(l, Sleeping)
    /\ UNCHANGED <<is_running, stop_event, monitor_thread, callers, mon_calls, monOthers>>

\* _monitor_loop: time.sleep(self.poll_interval) ends
LoopWakes(l) ==
    /\ loops[l] = Sleeping
    /\ LoopGoto(l, AtTest)
    /\ UNCHANGED <<is_running, stop_event, monitor_thread, callers, mon_calls, monOthers>>

MonNext ==
    \/ \E c \in Threads :
          \/ StartWhileRunning(c)
          \/ StartCheck(c)
          \/ StartAborts(c)
          \/ StartSetRunning(c)
          \/ StartClearEvent(c)
          \/ StartThread(c)
          \/ StopWhileStopped(c)
          \/ StopCheck(c)
          \/ StopClearRunning(c)
          \/ StopSetEvent(c)
          \/ StopJoined(c)
          \/ StopJoinTimesOut(c)
    \/ \E l \in DOMAIN loops :
          \/ LoopTest(l)
          \/ LoopPoll(l)
          \/ LoopProcessed(l)
          \/ LoopWakes(l)

\* the loop threads querying the transcript database at this moment
LoopsQuerying == {l \in DOMAIN loops : loops[l] = Polling}

\* C30: at any time at most one monitor loop thread is polling the
\* transcription database, whatever the sequence of start and stop calls,
\* concurrent start calls and a stop whose join timed out followed by a new
\* start included.  Stated in its weakest form: no two loop threads are in
\* the database query at the same moment.
C30_AtMostOneLoopPolling == Cardinality(LoopsQuerying) <= 1

(***************************************************************************)
(* execute_with_logging (backend/command_runner.py), the execution_history *)
(* table (backend/execution_history.py) and the completion watchers        *)
(* (backend/execution_watcher.py)                                          *)
(***************************************************************************)
MaxLogRuns == 2

\* command_obj: the command given or looked up, NoLogCommand if there is none
NoLogCommand == [found |-> FALSE, type |-> "none", enabled |-> FALSE, run_foreground |-> FALSE]

LogCommand(type, enabled, run_foreground) ==
    [found |-> TRUE, type |-> type, enabled |-> enabled, run_foreground |-> run_foreground]

LogCommands ==
    {NoLogCommand}
        \cup {LogCommand("script", e, f) : e \in BOOLEAN, f \in BOOLEAN}
        \cup {LogCommand(type, e, FALSE) : type \in {"http", "mcp"}, e \in BOOLEAN}

\* result.to_dict(): success, and what meta names ("pid", "terminal_window_id"
\* or nothing)
LaunchResult(success, meta) == [success |-> success, meta |-> meta]

NoLaunchResult == [success |-> FALSE, meta |-> "unset"]

Failure == LaunchResult(FALSE, "none")

\* the results execute can return for the command
ExecuteResults(command) ==
    IF ~command.found THEN {Failure}                      \* "Command not found"
    ELSE IF ~command.enabled THEN {Failure}               \* "Command is disabled"
    ELSE IF command.type = "script"
         THEN IF command.run_foreground
              THEN {LaunchResult(TRUE, "terminal_window_id"), Failure}
              ELSE {LaunchResult(TRUE, "pid"), Failure}
         ELSE {LaunchResult(TRUE, "none"), Failure}

\* is_async_script
IsAsyncScript(command, result) == command.found /\ command.type = "script"

\* a row of execution_history, with the process the execution launched and
\* the watcher thread started for it
LogEntry(status, process, watcher) ==
    [status |-> status, process |-> process, watcher |-> watcher]

\* the status update_execution_log writes
StatusFor(result, keep_running) ==
    IF keep_running THEN "running"
    ELSE IF result.success THEN "completed" ELSE "failed"

IdleRun == [pc |-> "idle", command |-> NoLogCommand, result |-> NoLaunchResult]

LgInit ==
    /\ lg_log = << >>
    /\ lg_run = IdleRun

LgIdle == LgInit

\* the log_id of the invocation: the row inserted last
LogId == Len(lg_log)

\* execute_with_logging is called: log_id = start_execution_log(...)
StartExecutionLog ==
    /\ lg_run.pc = "idle"
    /\ Len(lg_log) < MaxLogRuns
    /\ \E command \in LogCommands :
           lg_run' = [IdleRun EXCEPT !.pc = "execute", !.command = command]
    /\ lg_log' = Append(lg_log, LogEntry("running", "none", "none"))
    /\ UNCHANGED lgOthers

\* result = execute(...): a launched script leaves a process (or a busy
\* terminal window) behind
ExecuteForLog ==
    /\ lg_run.pc = "execute"
    /\ \E result \in ExecuteResults(lg_run.command) :
           /\ lg_run' = [lg_run EXCEPT !.pc = "update", !.result = result]
           /\ lg_log' = [lg_log EXCEPT ![LogId].process =
                            IF result.meta \in {"pid", "terminal_window_id"}
                            THEN "running" ELSE "none"]
    /\ UNCHANGED lgOthers

\* update_execution_log(log_id, result.to_dict(), keep_running=is_async_script)
UpdateExecutionLog ==
    /\ lg_run.pc = "update"
    /\ lg_log' = [lg_log EXCEPT ![LogId].status =
                     StatusFor(lg_run.result, IsAsyncScript(lg_run.command, lg_run.result))]
    /\ lg_run' = [lg_run EXCEPT !.pc = "watch"]
    /\ UNCHANGED lgOthers

\* if is_async_script: start_script_completion_watcher(log_id, result.to_dict()),
\* which starts a thread only when meta has a pid or a terminal window id;
\* then execute_with_logging returns
StartScriptCompletionWatcher ==
    /\ lg_run.pc = "watch"
    /\ lg_log' = [lg_log EXCEPT ![LogId].watcher =
                     IF /\ IsAsyncScript(lg_run.command, lg_run.result)
                        /\ lg_run.result.meta \in {"pid", "terminal_window_id"}
                     THEN "waiting" ELSE "none"]
    /\ lg_run' = IdleRun
    /\ UNCHANGED lgOthers

\* the launched process exits, with status 0 or not (the terminal window
\* stops being busy)
ProcessExits(i) ==
    /\ lg_log[i].process = "running"
    /\ \E ok \in BOOLEAN :
           lg_log' = [lg_log EXCEPT ![i].process = IF ok THEN "exited_ok" ELSE "exited_bad"]
    /\ UNCHANGED <<lg_run, lgOthers>>

\* _wait_for_pid / _wait_for_terminal_window: the process is gone, and
\* _finalize_log calls update_execution_log(log_id, final, keep_running=False)
WatcherFinalizes(i) ==
    /\ lg_log[i].watcher = "waiting"
    /\ lg_log[i].process \in {"exited_ok", "exited_bad"}
    /\ lg_log' = [lg_log EXCEPT
                     ![i].status = StatusFor(LaunchResult(lg_log[i].process = "exited_ok", "none"),
                                             FALSE),
                     ![i].watcher = "done"]
    /\ UNCHANGED <<lg_run, lgOthers>>

LgNext ==
    \/ StartExecutionLog
    \/ ExecuteForLog
    \/ UpdateExecutionLog
    \/ StartScriptCompletionWatcher
    \/ \E i \in DOMAIN lg_log : ProcessExits(i) \/ WatcherFinalizes(i)

\* every step of a started invocation is taken, every launched process exits
\* and every watcher thread runs
LgFairness ==
    /\ WF_vars(ExecuteForLog)
    /\ WF_vars(UpdateExecutionLog)
    /\ WF_vars(StartScriptCompletionWatcher)
    /\ \A i \in 1..MaxLogRuns : WF_vars(i \in DOMAIN lg_log /\ ProcessExits(i))
    /\ \A i \in 1..MaxLogRuns : WF_vars(i \in DOMAIN lg_log /\ WatcherFinalizes(i))

\* the entry exists and its status is completed or failed
EntryFinished(i) == Len(lg_log) >= i /\ lg_log[i].status \in {"completed", "failed"}

\* C31: every execution-history entry created by execute_with_logging
\* eventually reaches status completed or failed, given that every process
\* it launched eventually exits: no entry stays in status running for ever.
C31_EveryEntryFinishes ==
    \A i \in 1..MaxLogRuns :
        (Len(lg_log) >= i) ~> EntryFinished(i)

(***************************************************************************)
(* The monitor loop and the transcripts it picks up (src/monitor.py):      *)
(* get_latest_transcript, contains_activation_word and _monitor_loop, for  *)
(* one loop thread of a running monitor.  A transcript's id and timestamp  *)
(* are its position in the table; timestamps grow with every arrival.      *)
(***************************************************************************)
MaxTranscripts == 3

\* what get_transcript_text and contains_activation_word make of a
\* transcript: text that starts with the activation word, other text, or
\* no text at all
TranscriptKinds == {"command", "other", "empty"}

NoTranscript == 0

\* get_latest_transcript(conn, last_timestamp): the row with the greatest
\* timestamp among those after last_timestamp (among all rows when
\* last_timestamp is None or 0), or None
GetLatestTranscript(table, after) ==
    LET rows == {i \in DOMAIN table : after = NoTranscript \/ i > after}
    IN  IF rows = {} THEN NoTranscript
        ELSE CHOOSE i \in rows : \A j \in rows : j <= i

Sleep == [pc |-> "sleep", new_transcript |-> NoTranscript]

\* start(): the baseline is the latest transcript of a table that holds
\* nothing or one earlier transcript, whose id is recorded as processed
TrInit ==
    /\ history \in {<< >>, <<"baseline">>}
    /\ last_timestamp = GetLatestTranscript(history, NoTranscript)
    /\ processed_ids = DOMAIN history
    /\ commands_run = << >>
    /\ poll = Sleep

TrIdle ==
    /\ history = << >>
    /\ last_timestamp = NoTranscript
    /\ processed_ids = {}
    /\ commands_run = << >>
    /\ poll = Sleep

\* the dictation application adds a transcript to the History table
TranscriptArrives ==
    /\ Len(history) < MaxTranscripts
    /\ \E kind \in TranscriptKinds : history' = Append(history, kind)
    /\ UNCHANGED <<last_timestamp, processed_ids, commands_run, poll, trOthers>>

\* _monitor_loop: the sleep ends and the loop queries the table; a new
\* transcript that was not processed yet goes on to the dispatch
QueryLatest ==
    LET new_transcript == GetLatestTranscript(history, last_timestamp)
    IN  /\ poll.pc = "sleep"
        /\ poll' = IF new_transcript # NoTranscript /\ new_transcript \notin processed_ids
                   THEN [pc |-> "dispatch", new_transcript |-> new_transcript]
                   ELSE Sleep
        /\ UNCHANGED <<history, last_timestamp, processed_ids, commands_run, trOthers>>

\* _monitor_loop: the branch for a transcript that starts with the
\* activation word: process_command(text), then the id and the timestamp
\* are recorded
ProcessCommand ==
    /\ poll.pc = "dispatch"
    /\ history[poll.new_transcript] = "command"
    /\ commands_run' = Append(commands_run, poll.new_transcript)
    /\ processed_ids' = processed_ids \cup {poll.new_transcript}
    /\ last_timestamp' = poll.new_transcript
    /\ poll' = Sleep
    /\ UNCHANGED <<history, trOthers>>

\* _monitor_loop: "elif text:", a transcript without the activation word is
\* recorded and not run
SkipOtherText ==
    /\ poll.pc = "dispatch"
    /\ history[poll.new_transcript] = "other"
    /\ processed_ids' = processed_ids \cup {poll.new_transcript}
    /\ last_timestamp' = poll.new_transcript
    /\ poll' = Sleep
    /\ UNCHANGED <<history, commands_run, trOthers>>

\* _monitor_loop: a transcript without text is left alone
IgnoreEmptyText ==
    /\ poll.pc = "dispatch"
    /\ history[poll.new_transcript] = "empty"
    /\ poll' = Sleep
    /\ UNCHANGED <<history, last_timestamp, processed_ids, commands_run, trOthers>>

TrNext ==
    \/ TranscriptArrives
    \/ QueryLatest
    \/ ProcessCommand
    \/ SkipOtherText
    \/ IgnoreEmptyText

\* the loop thread keeps running
TrFairness ==
    /\ WF_vars(QueryLatest)
    /\ WF_vars(ProcessCommand)
    /\ WF_vars(SkipOtherText)
    /\ WF_vars(IgnoreEmptyText)

\* process_command was called for transcript i
WasRun(i) == \E k \in DOMAIN commands_run : commands_run[k] = i

\* transcript i arrived after the monitor started and starts with the
\* activation word
NewCommand(i) == i \in DOMAIN history /\ history[i] = "command"

\* C32: while the monitor runs, every transcript that appears in the
\* History table after the monitor started and whose text starts with the
\* activation word is eventually parsed and executed, whatever number of
\* transcripts arrive between two polls.
C32_EveryCommandTranscriptRuns ==
    \A i \in 1..MaxTranscripts : NewCommand(i) ~> WasRun(i)

\* no transcript id is processed more than once
NoTranscriptRunTwice ==
    \A k, l \in DOMAIN commands_run : commands_run[k] = commands_run[l] => k = l

(***************************************************************************)
(* upsert_server, delete_server and update_secrets on two servers, with    *)
(* the lock, the registry file and the keyring usernames                   *)
(* (backend/mcp_client.py, backend/secret_store.py).  Server ids and key   *)
(* names are strings: the web API takes both from the request.             *)
(***************************************************************************)
MaxPfCalls == 2

IdA == <<"a">>
IdAB == <<"a", ":", "b">>
PfIds == {IdA, IdAB}

KeyC == <<"c">>
KeyBC == <<"b", ":", "c">>
PfKeys == {KeyC, KeyBC}

\* _username(server_id, key_name): f"{server_id}:{key_name}"
Username(server_id, key_name) == server_id \o <<":">> \o key_name

NoConfig == [registered |-> FALSE, secret_fields |-> << >>]

Config(secret_fields) == [registered |-> TRUE, secret_fields |-> secret_fields]

PfPayloads == {Config(<< >>), Config(<<KeyC>>), Config(<<KeyBC>>)}

\* the secrets argument of update_secrets: one key, with a value or with
\* None (FALSE)
PfSecretItems == {<<key, set>> : key \in PfKeys, set \in BOOLEAN}

NoRegistryCall == [pc |-> "idle", op |-> "none", id |-> << >>, payload |-> NoConfig,
           item |-> <<KeyC, FALSE>>, data |-> [i \in PfIds |-> NoConfig],
           server |-> NoConfig, keys |-> << >>]

PfUnlocked == "nobody"

\* the registry file of an earlier run: no server, server "a:b" with the
\* secret key "c", or both servers; the keyring holds the secret of "a:b" or
\* nothing
PfInit ==
    /\ pf_servers \in {[i \in PfIds |-> NoConfig],
                       [i \in PfIds |-> IF i = IdAB THEN Config(<<KeyC>>) ELSE NoConfig],
                       [i \in PfIds |-> IF i = IdAB THEN Config(<<KeyC>>) ELSE Config(<< >>)]}
    /\ pf_file = pf_servers
    /\ pf_cache = {}
    /\ pf_keyring \in {{}} \cup
           (IF pf_servers[IdAB].registered THEN {{Username(IdAB, KeyC)}} ELSE {})
    /\ pf_lock = PfUnlocked
    /\ pf_threads = [t \in Threads |-> NoRegistryCall]
    /\ pf_calls = 0

PfIdle ==
    /\ pf_servers = [i \in PfIds |-> NoConfig]
    /\ pf_file = pf_servers
    /\ pf_cache = {}
    /\ pf_keyring = {}
    /\ pf_lock = PfUnlocked
    /\ pf_threads = [t \in Threads |-> NoRegistryCall]
    /\ pf_calls = 0

\* a variant of the lock that never makes a thread wait
CanLock_Always(t) == TRUE

\* with self._lock: the thread can enter when no other thread holds the lock
CanLock(t) == pf_lock \in {PfUnlocked, t}

PfAt(t, pc) == pf_threads[t].pc = pc

PfGoto(t, pc) == pf_threads' = [pf_threads EXCEPT ![t].pc = pc]

PfReturn(t) == pf_threads' = [pf_threads EXCEPT ![t] = [NoRegistryCall EXCEPT !.pc = "done",
                                  !.op = pf_threads[t].op, !.id = pf_threads[t].id]]

PfBegin(t, call) ==
    /\ pf_threads[t].pc \in {"idle", "done"}
    /\ pf_calls < MaxPfCalls
    /\ pf_calls' = pf_calls + 1
    /\ pf_threads' = [pf_threads EXCEPT ![t] = call]

\* upsert_server(payload) is called
PfStartUpsert(t) ==
    /\ \E id \in PfIds, payload \in PfPayloads :
            PfBegin(t, [NoRegistryCall EXCEPT !.pc = "upsert", !.op = "upsert_server", !.id = id,
                                      !.payload = payload])
    /\ UNCHANGED <<pf_servers, pf_file, pf_cache, pf_keyring, pf_lock, pfOthers>>

\* upsert_server: the lock is taken, self._servers[server_id] = payload and
\* self._tool_cache.pop(server_id, None)
PfUpsertStore(t) ==
    /\ PfAt(t, "upsert")
    /\ CanLock(t)
    /\ pf_lock' = t
    /\ pf_servers' = [pf_servers EXCEPT ![pf_threads[t].id] = pf_threads[t].payload]
    /\ pf_cache' = pf_cache \ {pf_threads[t].id}
    /\ PfGoto(t, "persist")
    /\ UNCHANGED <<pf_file, pf_keyring, pf_calls, pfOthers>>

\* _persist: data = {"servers": list(self._servers.values())}
PersistRead(t) ==
    /\ PfAt(t, "persist")
    /\ pf_threads' = [pf_threads EXCEPT ![t].data = pf_servers, ![t].pc = "write"]
    /\ UNCHANGED <<pf_servers, pf_file, pf_cache, pf_keyring, pf_lock, pf_calls, pfOthers>>

\* _persist: self._write_servers(data); the locked block ends
PersistWrite(t) ==
    /\ PfAt(t, "write")
    /\ pf_file' = pf_threads[t].data
    /\ pf_lock' = PfUnlocked
    /\ PfGoto(t, IF pf_threads[t].op = "upsert_server" THEN "upsert_return"
                 ELSE "delete_secrets")
    /\ UNCHANGED <<pf_servers, pf_cache, pf_keyring, pf_calls, pfOthers>>

\* upsert_server: return self.get_server(server_id) or payload; get_server
\* takes the lock
PfUpsertReturn(t) ==
    /\ PfAt(t, "upsert_return")
    /\ CanLock(t)
    /\ PfReturn(t)
    /\ UNCHANGED <<pf_servers, pf_file, pf_cache, pf_keyring, pf_lock, pf_calls, pfOthers>>

\* delete_server(server_id) is called
PfStartDelete(t) ==
    /\ \E id \in PfIds :
            PfBegin(t, [NoRegistryCall EXCEPT !.pc = "delete", !.op = "delete_server", !.id = id])
    /\ UNCHANGED <<pf_servers, pf_file, pf_cache, pf_keyring, pf_lock, pfOthers>>

\* delete_server: the lock is taken, server = self._servers.pop(server_id, None);
\* an unknown id ends the locked block and the call
PfDeletePop(t) ==
    LET id == pf_threads[t].id
        server == pf_servers[id]
    IN  /\ PfAt(t, "delete")
        /\ CanLock(t)
        /\ pf_servers' = [pf_servers EXCEPT ![id] = NoConfig]
        /\ IF server.registered
           THEN /\ pf_lock' = t
                /\ pf_threads' = [pf_threads EXCEPT ![t].server = server,
                                                    ![t].keys = server.secret_fields,
                                                    ![t].pc = "persist"]
           ELSE /\ pf_lock' = pf_lock
                /\ PfReturn(t)
        /\ UNCHANGED <<pf_file, pf_cache, pf_keyring, pf_calls, pfOthers>>

\* delete_server: delete_secret(server_id, key) for every declared key, then
\* self._tool_cache.pop(server_id, None) and the return
PfDeleteSecrets(t) ==
    LET call == pf_threads[t]
    IN  /\ PfAt(t, "delete_secrets")
        /\ IF call.keys # << >>
           THEN /\ pf_keyring' = pf_keyring \ {Username(call.id, Head(call.keys))}
                /\ pf_threads' = [pf_threads EXCEPT ![t].keys = Tail(call.keys)]
                /\ UNCHANGED pf_cache
           ELSE /\ pf_cache' = pf_cache \ {call.id}
                /\ PfReturn(t)
                /\ UNCHANGED pf_keyring
        /\ UNCHANGED <<pf_servers, pf_file, pf_lock, pf_calls, pfOthers>>

\* update_secrets(server_id, secrets) is called
PfStartUpdateSecrets(t) ==
    /\ \E id \in PfIds, item \in PfSecretItems :
            PfBegin(t, [NoRegistryCall EXCEPT !.pc = "secrets_check", !.op = "update_secrets",
                                      !.id = id, !.item = item])
    /\ UNCHANGED <<pf_servers, pf_file, pf_cache, pf_keyring, pf_lock, pfOthers>>

\* update_secrets: the locked check that the server is registered
PfSecretsCheck(t) ==
    /\ PfAt(t, "secrets_check")
    /\ CanLock(t)
    /\ IF pf_servers[pf_threads[t].id].registered
       THEN PfGoto(t, "set_secret")
       ELSE PfReturn(t)
    /\ UNCHANGED <<pf_servers, pf_file, pf_cache, pf_keyring, pf_lock, pf_calls, pfOthers>>

\* update_secrets: set_secret(server_id, key, value), which deletes the
\* password when the value is None or empty
PfSetSecret(t) ==
    LET call == pf_threads[t]
        username == Username(call.id, call.item[1])
    IN  /\ PfAt(t, "set_secret")
        /\ pf_keyring' = IF call.item[2] THEN pf_keyring \cup {username}
                         ELSE pf_keyring \ {username}
        /\ PfGoto(t, "invalidate")
        /\ UNCHANGED <<pf_servers, pf_file, pf_cache, pf_lock, pf_calls, pfOthers>>

\* update_secrets: the locked self._tool_cache.pop(server_id, None), and the
\* return
PfSecretsInvalidate(t) ==
    /\ PfAt(t, "invalidate")
    /\ CanLock(t)
    /\ pf_cache' = pf_cache \ {pf_threads[t].id}
    /\ PfReturn(t)
    /\ UNCHANGED <<pf_servers, pf_file, pf_keyring, pf_lock, pf_calls, pfOthers>>

\* list_tools(server_id) on a registered server stores a cache entry
PfListTools(t) ==
    /\ \E id \in PfIds :
           /\ pf_servers[id].registered
           /\ CanLock(t)
           /\ pf_threads[t].pc \in {"idle", "done"}
           /\ pf_calls < MaxPfCalls
           /\ pf_calls' = pf_calls + 1
           /\ pf_cache' = pf_cache \cup {id}
           /\ pf_threads' = [pf_threads EXCEPT ![t] =
                                [NoRegistryCall EXCEPT !.pc = "done", !.op = "list_tools", !.id = id]]
    /\ UNCHANGED <<pf_servers, pf_file, pf_keyring, pf_lock, pfOthers>>

PfNext ==
    \E t \in Threads :
        \/ PfStartUpsert(t)
        \/ PfUpsertStore(t)
        \/ PersistRead(t)
        \/ PersistWrite(t)
        \/ PfUpsertReturn(t)
        \/ PfStartDelete(t)
        \/ PfDeletePop(t)
        \/ PfDeleteSecrets(t)
        \/ PfStartUpdateSecrets(t)
        \/ PfSecretsCheck(t)
        \/ PfSetSecret(t)
        \/ PfSecretsInvalidate(t)
        \/ PfListTools(t)

\* C37: after every completed upsert_server or delete_server, and under any
\* interleaving of concurrent upserts and deletes, the server list in the
\* registry file equals the set of configs in the in-memory registry:
\* whenever no thread is inside a locked block of the registry, the file and
\* the registry hold the same servers.
C37_FileEqualsRegistry == pf_lock = PfUnlocked => pf_file = pf_servers

\* an upsert and a delete by two threads have both returned, and a server
\* is registered
C37_Witness ==
    /\ pf_threads["t1"].pc = "done" /\ pf_threads["t1"].op = "upsert_server"
    /\ pf_threads["t2"].pc = "done" /\ pf_threads["t2"].op = "delete_server"
    /\ pf_threads["t1"].id # pf_threads["t2"].id
    /\ pf_servers[pf_threads["t1"].id].registered
    /\ pf_file = pf_servers

\* the secrets of a registered server: per declared secret key, whether the
\* keyring holds a value for it
SecretsOfServer(keyring, server_id, server) ==
    [i \in DOMAIN server.secret_fields |->
        Username(server_id, server.secret_fields[i]) \in keyring]

\* C38: upsert_server, delete_server and update_secrets on server X leave the
\* config, the secrets and the tool-cache entry of every other server
\* unchanged: so does every step of such a call.
C38_OtherServersUnchanged ==
    [][\A t \in Threads :
          (pf_threads'[t] # pf_threads[t]
              /\ (pf_threads[t].op \in {"upsert_server", "delete_server", "update_secrets"}
                      /\ pf_threads[t].pc # "done")) =>
              \A other \in PfIds \ {pf_threads[t].id} :
                  /\ pf_servers'[other] = pf_servers[other]
                  /\ SecretsOfServer(pf_keyring', other, pf_servers[other])
                         = SecretsOfServer(pf_keyring, other, pf_servers[other])
                  /\ (other \in pf_cache') = (other \in pf_cache)]_vars

-----------------------------------------------------------------------------
(* CommandManager._command_to_tool: the tool definition of one command *)

MaxToolParams == 2
MaxExamples == 3

\* f"{param_desc} (original name: '{original_name}')".strip()
WithOriginalName(param_desc, original_name) ==
    [text |-> param_desc, original_name |-> original_name]

\* description += " Examples: ..." with the first three example phrases
DescriptionWithExamples(command) ==
    IF command.example_phrases # <<>>
    THEN [text |-> command.description,
          examples |-> Take(command.example_phrases, MaxExamples)]
    ELSE [text |-> command.description, examples |-> <<>>]

\* the loop over command['parameters']:
\* acc = [properties |-> properties, required |-> required]
RECURSIVE ToolParamsLoop(_, _)
ToolParamsLoop(acc, parameters) ==
    IF parameters = <<>> THEN acc
    ELSE LET param == Head(parameters)
             original_name == param.name
             param_name == SanitizeParamName(original_name)
             param_type == MapParamType(param.type)
             param_desc == IF param_name # original_name
                           THEN WithOriginalName(param.description, original_name)
                           ELSE param.description
         IN  ToolParamsLoop(
                 [properties |-> DPut(acc.properties, param_name,
                                      BuildPropertySchema(param, param_type, param_desc)),
                  required |-> IF param.required THEN Append(acc.required, param_name)
                               ELSE acc.required],
                 Tail(parameters))

\* _command_to_tool(command, tool_name); has_required tells whether
\* input_schema has the key "required"
CommandToTool(command, tool_name) ==
    LET built == ToolParamsLoop([properties |-> <<>>, required |-> <<>>],
                                command.parameters)
    IN  [name |-> IF tool_name \in {NoneV, EmptyStr} THEN command.id ELSE tool_name.s,
         description |-> DescriptionWithExamples(command),
         properties |-> built.properties,
         has_required |-> built.required # <<>>,
         required |-> built.required]

NoTool == [none |-> TRUE]

-----------------------------------------------------------------------------
(* Inputs of _command_to_tool *)

\* parameter names as authored: two different names with one sanitized form,
\* the empty name and the name it falls back to, and a name that is kept
ToolParamNames ==
    {<<"a", " ", "b">>, <<"a", "_", "b">>, <<>>, ParamFallback, <<"x">>}

ToolParams ==
    {[name |-> n, type |-> t, description |-> d, required |-> r, options |-> NoneV] :
        n \in ToolParamNames, t \in {"string", "integer"}, d \in {"", "d"},
        r \in BOOLEAN}

\* parameter lists in which no original name occurs twice
ToolParamLists ==
    {ps \in SeqsUpTo(ToolParams, MaxToolParams) :
        \A i, j \in 1..Len(ps) : ps[i].name = ps[j].name => i = j}

ToolCommands ==
    {[id |-> <<"c">>, description |-> "d", example_phrases |-> e, parameters |-> ps] :
        e \in {<<>>, <<"e1", "e2", "e3", "e4">>}, ps \in ToolParamLists}

ToolNameArgs == {NoneV, StrV(<<"t">>)}

-----------------------------------------------------------------------------
(* Specification of _command_to_tool *)

TsInit ==
    /\ ts_command \in ToolCommands
    /\ ts_tool = NoTool

TsIdle ==
    /\ ts_command = NoCommand
    /\ ts_tool = NoTool

\* tools.append(self._command_to_tool(command, tool_name=tool_name))
CallCommandToTool ==
    /\ ts_tool = NoTool
    /\ \E tool_name \in ToolNameArgs :
           ts_tool' = CommandToTool(ts_command, tool_name)
    /\ UNCHANGED <<ts_command, tsOthers>>

TsNext == CallCommandToTool

-----------------------------------------------------------------------------
(* Properties of _command_to_tool *)

NoDuplicates(seq) == \A i, j \in 1..Len(seq) : seq[i] = seq[j] => i = j

\* the property names under which the schema holds the parameter
\* definitions of the command: one per parameter that has its own property
OwnProperty(i) ==
    /\ DHas(ts_tool.properties, SanitizeParamName(ts_command.parameters[i].name))
    /\ \A j \in 1..Len(ts_command.parameters) :
           SanitizeParamName(ts_command.parameters[j].name)
               = SanitizeParamName(ts_command.parameters[i].name) => j = i

\* C39: in the tool schema built for a command, every defined parameter has
\* its own property: two parameters with different original names never
\* share a schema property name, the number of properties equals the number
\* of defined parameters, and the required list has no duplicates.
C39_EveryParameterHasItsOwnProperty ==
    ts_tool # NoTool =>
        /\ \A i \in 1..Len(ts_command.parameters) : OwnProperty(i)
        /\ Len(ts_tool.properties) = Len(ts_command.parameters)
        /\ NoDuplicates(ts_tool.required)

-----------------------------------------------------------------------------
(* Specifications *)

InitSanitize == SanInit /\ PmIdle /\ ToolIdle /\ ExecIdle /\ InterpIdle /\ RegIdle
        /\ CmdIdle /\ SessIdle /\ NiIdle /\ MxIdle /\ EnIdle /\ LkIdle /\ TpIdle /\ MonIdle /\ LgIdle /\ TrIdle /\ PfIdle /\ TsIdle

SpecSanitize == InitSanitize /\ [][SanNext]_vars

InitParamMap == PmInit /\ SanIdle /\ ToolIdle /\ ExecIdle /\ InterpIdle /\ RegIdle
        /\ CmdIdle /\ SessIdle /\ NiIdle /\ MxIdle /\ EnIdle /\ LkIdle /\ TpIdle /\ MonIdle /\ LgIdle /\ TrIdle /\ PfIdle /\ TsIdle

SpecParamMap == InitParamMap /\ [][PmNext]_vars

InitTools == ToolInit /\ SanIdle /\ PmIdle /\ ExecIdle /\ InterpIdle /\ RegIdle
        /\ CmdIdle /\ SessIdle /\ NiIdle /\ MxIdle /\ EnIdle /\ LkIdle /\ TpIdle /\ MonIdle /\ LgIdle /\ TrIdle /\ PfIdle /\ TsIdle

SpecTools == InitTools /\ [][ToolNext]_vars

InitExec == ExecInit /\ SanIdle /\ PmIdle /\ ToolIdle /\ InterpIdle /\ RegIdle
        /\ CmdIdle /\ SessIdle /\ NiIdle /\ MxIdle /\ EnIdle /\ LkIdle /\ TpIdle /\ MonIdle /\ LgIdle /\ TrIdle /\ PfIdle /\ TsIdle

SpecExec == InitExec /\ [][ExecNext]_vars

InitInterp == InterpInit /\ SanIdle /\ PmIdle /\ ToolIdle /\ ExecIdle /\ RegIdle
        /\ CmdIdle /\ SessIdle /\ NiIdle /\ MxIdle /\ EnIdle /\ LkIdle /\ TpIdle /\ MonIdle /\ LgIdle /\ TrIdle /\ PfIdle /\ TsIdle

SpecInterp == InitInterp /\ [][InterpNext]_vars

InitBraces == BracesInit /\ SanIdle /\ PmIdle /\ ToolIdle /\ ExecIdle /\ RegIdle
        /\ CmdIdle /\ SessIdle /\ NiIdle /\ MxIdle /\ EnIdle /\ LkIdle /\ TpIdle /\ MonIdle /\ LgIdle /\ TrIdle /\ PfIdle /\ TsIdle

SpecBraces == InitBraces /\ [][InterpNext]_vars

InitReg == RegInit /\ SanIdle /\ PmIdle /\ ToolIdle /\ ExecIdle /\ InterpIdle
        /\ CmdIdle /\ SessIdle /\ NiIdle /\ MxIdle /\ EnIdle /\ LkIdle /\ TpIdle /\ MonIdle /\ LgIdle /\ TrIdle /\ PfIdle /\ TsIdle

SpecReg == InitReg /\ [][RegNext]_vars

InitCmd == CmdInit /\ SanIdle /\ PmIdle /\ ToolIdle /\ ExecIdle /\ InterpIdle
        /\ RegIdle /\ SessIdle /\ NiIdle /\ MxIdle /\ EnIdle /\ LkIdle /\ TpIdle /\ MonIdle /\ LgIdle /\ TrIdle /\ PfIdle /\ TsIdle

SpecCmd == InitCmd /\ [][CmdNext]_vars

InitSess ==
    SessInit /\ SanIdle /\ PmIdle /\ ToolIdle /\ ExecIdle /\ InterpIdle /\ RegIdle /\ CmdIdle
        /\ NiIdle /\ MxIdle /\ EnIdle /\ LkIdle /\ TpIdle /\ MonIdle /\ LgIdle /\ TrIdle /\ PfIdle /\ TsIdle

SpecSess == InitSess /\ [][SessNext]_vars

InitSessions ==
    SessionsInit /\ SanIdle /\ PmIdle /\ ToolIdle /\ ExecIdle /\ InterpIdle /\ RegIdle /\ CmdIdle
        /\ NiIdle /\ MxIdle /\ EnIdle /\ LkIdle /\ TpIdle /\ MonIdle /\ LgIdle /\ TrIdle /\ PfIdle /\ TsIdle

SpecSessions == InitSessions /\ [][SessionOperation]_vars

InitNi ==
    NiInit /\ SanIdle /\ PmIdle /\ ToolIdle /\ ExecIdle /\ InterpIdle /\ RegIdle /\ CmdIdle
        /\ SessIdle /\ MxIdle /\ EnIdle /\ LkIdle /\ TpIdle /\ MonIdle /\ LgIdle /\ TrIdle /\ PfIdle /\ TsIdle

SpecNi == InitNi /\ [][NiNext]_vars

InitMcpRun ==
    MxInit /\ SanIdle /\ PmIdle /\ ToolIdle /\ ExecIdle /\ InterpIdle /\ RegIdle /\ CmdIdle /\ SessIdle /\ NiIdle /\ EnIdle /\ LkIdle /\ TpIdle /\ MonIdle /\ LgIdle /\ TrIdle /\ PfIdle /\ TsIdle

SpecMcpRun == InitMcpRun /\ [][MxNext]_vars

InitEnum ==
    EnInit /\ SanIdle /\ PmIdle /\ ToolIdle /\ ExecIdle /\ InterpIdle /\ RegIdle /\ CmdIdle /\ SessIdle /\ NiIdle /\ MxIdle /\ LkIdle /\ TpIdle /\ MonIdle /\ LgIdle /\ TrIdle /\ PfIdle /\ TsIdle

SpecEnum == InitEnum /\ [][EnNext]_vars

InitLock ==
    LkInit /\ SanIdle /\ PmIdle /\ ToolIdle /\ ExecIdle /\ InterpIdle /\ RegIdle /\ CmdIdle /\ SessIdle /\ NiIdle /\ MxIdle /\ EnIdle /\ TpIdle /\ MonIdle /\ LgIdle /\ TrIdle /\ PfIdle /\ TsIdle

SpecLock == InitLock /\ [][LkNext]_vars

InitTemplates ==
    TpInit /\ SanIdle /\ PmIdle /\ ToolIdle /\ ExecIdle /\ InterpIdle /\ RegIdle /\ CmdIdle /\ SessIdle /\ NiIdle /\ MxIdle /\ EnIdle /\ LkIdle /\ MonIdle /\ LgIdle /\ TrIdle /\ PfIdle /\ TsIdle

SpecTemplates == InitTemplates /\ [][TpNext]_vars

InitMonitor ==
    MonInit /\ SanIdle /\ PmIdle /\ ToolIdle /\ ExecIdle /\ InterpIdle /\ RegIdle /\ CmdIdle /\ SessIdle /\ NiIdle /\ MxIdle /\ EnIdle /\ LkIdle /\ TpIdle /\ LgIdle /\ TrIdle /\ PfIdle /\ TsIdle

SpecMonitor == InitMonitor /\ [][MonNext]_vars

InitLog ==
    LgInit /\ SanIdle /\ PmIdle /\ ToolIdle /\ ExecIdle /\ InterpIdle /\ RegIdle /\ CmdIdle /\ SessIdle /\ NiIdle /\ MxIdle /\ EnIdle /\ LkIdle /\ TpIdle /\ MonIdle /\ TrIdle /\ PfIdle /\ TsIdle

SpecLog == InitLog /\ [][LgNext]_vars

SpecLogFair == SpecLog /\ LgFairness

InitTranscripts ==
    TrInit /\ SanIdle /\ PmIdle /\ ToolIdle /\ ExecIdle /\ InterpIdle /\ RegIdle /\ CmdIdle /\ SessIdle /\ NiIdle /\ MxIdle /\ EnIdle /\ LkIdle /\ TpIdle /\ MonIdle /\ LgIdle /\ PfIdle /\ TsIdle

SpecTranscripts == InitTranscripts /\ [][TrNext]_vars

SpecTranscriptsFair == SpecTranscripts /\ TrFairness

InitPersist ==
    PfInit /\ SanIdle /\ PmIdle /\ ToolIdle /\ ExecIdle /\ InterpIdle /\ RegIdle /\ CmdIdle /\ SessIdle /\ NiIdle /\ MxIdle /\ EnIdle /\ LkIdle /\ TpIdle /\ MonIdle /\ LgIdle /\ TrIdle /\ TsIdle

SpecPersist == InitPersist /\ [][PfNext]_vars

InitSchema ==
    TsInit /\ SanIdle /\ PmIdle /\ ToolIdle /\ ExecIdle /\ InterpIdle /\ RegIdle /\ CmdIdle /\ SessIdle /\ NiIdle /\ MxIdle /\ EnIdle /\ LkIdle /\ TpIdle /\ MonIdle /\ LgIdle /\ TrIdle /\ PfIdle

SpecSchema == InitSchema /\ [][TsNext]_vars

====
